---------------------------- MODULE Spec2Model ----------------------------
(***************************************************************************)
(* A model of coco_env: the AXI-Stream driver, monitor and ready           *)
(* controller of src/coco_env/axis_vip.py (the same loops as               *)
(* src/coco_env/rv_base.py), the Packet word/byte conversions of           *)
(* src/packet.py, src/coco_env/packet.py and src/bin_operation.py.         *)
(*                                                                         *)
(* Python integers that the code treats as bit vectors (data words, byte   *)
(* masks) are unbounded; they are modelled as the finite set of the        *)
(* positions of their 1-bits, so that <<, >>, | and & are computed bit by  *)
(* bit as the code computes them and no width is imposed by the checker.   *)
(* Small integers (byte values, the tkeep value, counters) stay integers.  *)
(*                                                                         *)
(* Signals follow the simulator's rule: a write is scheduled and becomes   *)
(* visible at the next clock edge; a read returns the value visible at the *)
(* edge the coroutine was resumed by.  `sig` holds the visible values and  *)
(* `pend` the scheduled ones.                                              *)
(***************************************************************************)
EXTENDS Integers, Sequences, FiniteSets, TLC

VARIABLES
    cfg,        \* the interface and the configuration of driver/monitor/responder
    sig,        \* signal values visible at the last clock edge
    pend,       \* signal values scheduled for the next clock edge
    runnable,   \* coroutines resumed by the last edge that have not run yet
    drv,        \* AxisDriver: position in send_pkt and its locals
    mon,        \* AxisMonitor: position in mon_if and its accumulation state
    aport,      \* the monitor's observation list
    rsp,        \* AxisResponder: position in tready_ctrl and its loop counter
    sent,       \* the packets handed to send_pkt so far, in call order
    obs,        \* observer of the wire: counters kept for the properties
    wb          \* the objects of the harnesses WordSpec and ScoreSpec

vars == <<cfg, sig, pend, runnable, drv, mon, aport, rsp, sent, obs, wb>>

-----------------------------------------------------------------------------
(* Bounds of the model *)

MaxWidth == 3      \* lane widths 1..MaxWidth bytes
MaxSize  == 5      \* packet sizes 0..MaxSize
MaxDelay == 1      \* packet delays 0..MaxDelay
MaxPkts  == 2      \* sends per run
MaxLimit == 2      \* tvalid_low_limit, tvalid_high_limit in 1..MaxLimit
MaxBp    == 2      \* backpressure_max_delay in 1..MaxBp
MaxLen   == 4      \* WordSpec: byte sequences of length 1..MaxLen

(* Program constants *)
ActiveMax == 10    \* random.randint(1, 10): the responder's asserted burst

\* byte values used as packet data: both ends of the range, a value with a
\* single low bit, and one with the top bit only
ByteVals == {0, 1, 128, 255}

-----------------------------------------------------------------------------
(* Python integers as bit sets *)

Pow2(n) == 2 ^ n

\* the bit set of the non-negative integer n, n < 2^w
Bits(n, w) == {i \in 0..(w - 1) : (n \div Pow2(i)) % 2 = 1}

RECURSIVE Val(_)
\* the integer value of a bit set
Val(s) == IF s = {} THEN 0
          ELSE LET i == CHOOSE x \in s : TRUE IN Pow2(i) + Val(s \ {i})

Shl(x, k) == {i + k : i \in x}
Shr(x, k) == {i - k : i \in {j \in x : j >= k}}

\* (word >> (i * 8)) & 0xFF as a byte value
ByteOf(word, i) == Val(Shr(word, i * 8) \cap (0..7))

Min(a, b) == IF a <= b THEN a ELSE b

Reverse(s) == [i \in 1..Len(s) |-> s[Len(s) + 1 - i]]

RECURSIVE SeqSum(_)
SeqSum(s) == IF s = <<>> THEN 0 ELSE Head(s) + SeqSum(Tail(s))

-----------------------------------------------------------------------------
(* src/coco_env/axis_vip.py: helpers of the AXI-Stream binding *)

\* reverse_bits(value, width): bit i of value (i < width) goes to bit width-1-i
reverse_bits(value, width) == {width - 1 - i : i \in (value \cap (0..(width - 1)))}

\* pkt.data[a:b] of Python
PySlice(s, a, b) == SubSeq(s, a + 1, Min(b, Len(s)))

\* data_int |= (byte_val & 0xFF) << (i * 8) over enumerate(bytes)
PackBytes(bytes) ==
    UNION {Shl(Bits(bytes[i + 1] % 256, 8), i * 8) : i \in 0..(Len(bytes) - 1)}

\* NumWords with floor in place of ceil
NumWords_floor(size, W) ==
    LET n == size \div W
    IN  IF n = 0 THEN 1 ELSE n

\* math.ceil(pkt.pkt_size / self.width), and 1 for an empty packet
NumWords(size, W) ==
    LET n == (size + W - 1) \div W
    IN  IF n = 0 THEN 1 ELSE n

\* drive_tkeep that takes every beat for a full one
drive_tkeep_full(c, size, last_word) ==
    LET tkeep == IF c.keep_type = "FFS" THEN Pow2(c.W - 1) ELSE Pow2(c.W) - 1
    IN  IF c.drv_p0w0 = 0 THEN Val(reverse_bits(Bits(tkeep, c.W + 1), c.W))
        ELSE tkeep

\* AxisDriver.drive_tkeep: the value written to tkeep for a beat
drive_tkeep(c, size, last_word) ==
    LET msb   == IF last_word /\ size % c.W # 0 THEN size % c.W ELSE c.W
        tkeep == IF c.keep_type = "FFS" THEN Pow2(msb - 1) ELSE Pow2(msb) - 1
    IN  IF c.drv_p0w0 = 0 THEN Val(reverse_bits(Bits(tkeep, c.W + 1), c.W))
        ELSE tkeep

\* AxisDriver.drive_tdata: the value written to the data lanes for a beat.
\* UNPACKED and CHISEL_VEC lanes are a list of bytes, PACKED is one integer.
drive_tdata(c, data, last_word, word_num) ==
    LET start   == c.W * word_num
        chunk   == IF last_word THEN PySlice(data, start, Len(data))
                   ELSE PySlice(data, start, start + c.W)
        padded  == IF Len(chunk) < c.W
                   THEN chunk \o [i \in 1..(c.W - Len(chunk)) |-> 0]
                   ELSE chunk
        needs_reverse ==
                   IF c.unpack = "UNPACKED" THEN c.drv_p0w0 = 1
                   ELSE c.drv_p0w0 = 0
        ordered == IF needs_reverse THEN Reverse(padded) ELSE padded
    IN  IF c.unpack = "PACKED" THEN PackBytes(ordered) ELSE ordered

\* a completion test that never sees a transfer
Handshake_never(c, s) == FALSE

\* a completion test that wants READY whether a line is bound or not
Handshake_needs_ready(c, s) == s.tvalid # 0 /\ s.tready # 0

\* check_transaction_completion, and the same test in AxisMonitor.mon_if
Handshake(c, s) ==
    IF ~c.has_tready THEN s.tvalid # 0
    ELSE s.tvalid # 0 /\ s.tready # 0

\* AxisMonitor.mon_if: the sampled lanes as one integer
sample_tdata(c, tdata) ==
    IF c.unpack = "UNPACKED"
    THEN PackBytes(IF c.mon_p0w0 = 0 THEN Reverse(tdata) ELSE tdata)
    ELSE IF c.unpack = "CHISEL_VEC"
    THEN PackBytes(SubSeq(tdata, 1, c.W))
    ELSE IF c.mon_p0w0 = 0 /\ c.W > 1
         THEN IF \E b \in tdata : b >= 8 * c.W
              THEN tdata      \* OverflowError is caught and logged
              ELSE PackBytes(Reverse([i \in 1..c.W |-> ByteOf(tdata, i - 1)]))
         ELSE tdata

\* an FFS decode that shifts by two: (value << 2) - 1
tkeep_val_shift_two(c, tkeep) ==
    IF c.keep_type = "FFS"
    THEN IF tkeep = 0 THEN {} ELSE Bits(tkeep * 4 - 1, c.W + 2)
    ELSE Bits(tkeep, c.W + 1)

\* AxisMonitor.mon_tkeep: the raw mask read from the tkeep line
tkeep_val(c, tkeep) ==
    IF c.keep_type = "FFS"
    THEN IF tkeep = 0 THEN {} ELSE Bits(tkeep * 2 - 1, c.W + 2)
    ELSE Bits(tkeep, c.W + 1)

\* AxisMonitor.mon_tkeep: the byte mask it returns
mon_tkeep_mask(c, tkeep) ==
    LET tv        == tkeep_val(c, tkeep)
        full_mask == UNION {Shl(0..7, i * 8) : i \in (tv \cap (0..(c.W - 1)))}
    IN  reverse_bits(full_mask, c.W * 8)

\* AxisMonitor.mon_tkeep: bin(tkeep_val).count('1'), added to pkt_size
mon_tkeep_count(c, tkeep) == Cardinality(tkeep_val(c, tkeep))

RECURSIVE words_to_bytes_loop(_, _, _, _)
\* Packet.words_to_bytes: the loop over word_list, byte_list carried along
words_to_bytes_loop(word_list, total_bytes, width, byte_list) ==
    IF word_list = <<>> THEN byte_list
    ELSE LET word == Head(word_list)
             room == total_bytes - Len(byte_list)
             \* for i in range(width): append while len(byte_list) < total_bytes
             got  == [i \in 1..Min(width, IF room > 0 THEN room ELSE 0)
                        |-> ByteOf(word, i - 1)]
         IN  words_to_bytes_loop(Tail(word_list), total_bytes, width,
                                 byte_list \o got)

\* words_to_bytes that keeps the padding of the last word
words_to_bytes_padded(word_list, total_bytes, width) ==
    [pkt_size |-> total_bytes,
     data     |-> words_to_bytes_loop(word_list, Len(word_list) * width, width, <<>>)]

\* Packet.words_to_bytes (src/coco_env/packet.py): pkt_size and data it sets
words_to_bytes(word_list, total_bytes, width) ==
    [pkt_size |-> total_bytes,
     data     |-> words_to_bytes_loop(word_list, total_bytes, width, <<>>)]

-----------------------------------------------------------------------------
(* Word/byte conversions of src/packet.py and src/bin_operation.py *)

RECURSIVE word_list_loop(_, _, _, _, _, _, _)
\* the loop shared by Packet.get_word_list and bin_operation.get_word_list:
\* for i in range(n): word |= data[i] << (i % word_size) * 8, the word is
\* appended at the end of a word and at index last
word_list_loop(data, n, word_size, last, i, word, word_list) ==
    IF i >= n THEN word_list
    ELSE LET w == word \cup Shl(Bits(data[i + 1], 8), (i % word_size) * 8)
         IN  IF (i % word_size = word_size - 1) \/ (i = last)
             THEN word_list_loop(data, n, word_size, last, i + 1, {},
                                 Append(word_list, w))
             ELSE word_list_loop(data, n, word_size, last, i + 1, w, word_list)

\* Packet.get_word_list(word_size): range(self.pkt_size), last = len(data) - 1
pkt_get_word_list(pkt, word_size) ==
    word_list_loop(pkt.data, pkt.pkt_size, word_size, Len(pkt.data) - 1, 0, {}, <<>>)

\* bin_operation.get_word_list(byte_list, word_width, bytes_num)
get_word_list(byte_list, word_width, bytes_num) ==
    word_list_loop(byte_list, bytes_num, word_width, bytes_num - 1, 0, {}, <<>>)

RECURSIVE byte_list_loop(_, _, _, _, _, _)
\* the loop shared by Packet.write_word_list and bin_operation.get_byte_list:
\* byte i is ((word_list[word_cntr] >> (i % word_size) * 8) & 0xFF), the
\* word counter moves on after the last byte of a word
byte_list_loop(word_list, n, word_size, i, word_cntr, byte_list) ==
    IF i >= n THEN byte_list
    ELSE LET byte_cntr == i % word_size
             byte == ByteOf(word_list[word_cntr + 1], byte_cntr)
         IN  byte_list_loop(word_list, n, word_size, i + 1,
                            IF byte_cntr = word_size - 1 THEN word_cntr + 1
                            ELSE word_cntr,
                            Append(byte_list, byte))

\* Packet.write_word_list(word_list, pkt_size, word_size): pkt_size and data
write_word_list(word_list, pkt_size, word_size) ==
    [pkt_size |-> pkt_size,
     data     |-> byte_list_loop(word_list, pkt_size, word_size, 0, 0, <<>>)]

\* bin_operation.get_byte_list(word_list, word_width, bytes_num)
get_byte_list(word_list, word_width, bytes_num) ==
    byte_list_loop(word_list, bytes_num, word_width, 0, 0, <<>>)

-----------------------------------------------------------------------------
(* Configurations and packets *)

FlowModes   == {"ALWAYS_ON", "ONE_VALID_ONE_NONVALID", "RANDOM"}
UnpackModes == {"UNPACKED", "CHISEL_VEC", "PACKED"}
KeepTypes   == {"PACKED", "CHISEL_VEC", "FFS"}

\* the interface (AxisIf: width, unpack, tkeep_type, tready bound or not) and
\* the driver's and the monitor's pkt0_word0
DataConfigs ==
    [W         : 1..MaxWidth,
     unpack    : UnpackModes,
     keep_type : KeepTypes,
     drv_p0w0  : {0, 1},
     mon_p0w0  : {0, 1}]

\* the driver's and the responder's AxisConfig.  Fields a mode never reads
\* are held at 1, so that a configuration is listed once.
FlowConfigs ==
    {f \in [mode       : FlowModes,
            low        : 1..MaxLimit,
            high       : 1..MaxLimit,
            has_tready : BOOLEAN,
            rsp_mode   : FlowModes,
            bp_min     : 1..MaxBp,
            bp_max     : 1..MaxBp] :
        /\ f.bp_min <= f.bp_max
        /\ (f.mode # "RANDOM" => f.low = 1 /\ f.high = 1)
        /\ (~f.has_tready => f.rsp_mode = "ALWAYS_ON")
        /\ (f.rsp_mode # "RANDOM" => f.bp_min = 1 /\ f.bp_max = 1)}

\* a run: the data-path configuration, the flow configuration and the
\* number of packets the test sends one after another; the interface has a
\* tlast and a tkeep line
Config(d, f, n) ==
    [W |-> d.W, unpack |-> d.unpack, keep_type |-> d.keep_type,
     has_tlast |-> TRUE, has_tkeep |-> TRUE,
     drv_p0w0 |-> d.drv_p0w0, mon_p0w0 |-> d.mon_p0w0,
     mode |-> f.mode, low |-> f.low, high |-> f.high,
     has_tready |-> f.has_tready, rsp_mode |-> f.rsp_mode,
     bp_min |-> f.bp_min, bp_max |-> f.bp_max,
     sends |-> n]

\* the flow configuration of the dataclass defaults, with a responder
PlainFlow ==
    [mode |-> "ALWAYS_ON", low |-> 1, high |-> 1, has_tready |-> TRUE,
     rsp_mode |-> "ALWAYS_ON", bp_min |-> 1, bp_max |-> 1]

\* a flow configuration in which VALID and READY both stall the transfer:
\* alternating VALID under random backpressure
MixedFlow ==
    [mode |-> "ONE_VALID_ONE_NONVALID", low |-> 1, high |-> 1,
     has_tready |-> TRUE, rsp_mode |-> "RANDOM", bp_min |-> 1, bp_max |-> MaxBp]

\* the data-path configurations the flow configurations are explored under
PlainData ==
    {d \in DataConfigs :
        /\ d.W = 2
        /\ d.unpack = "PACKED" /\ d.keep_type = "PACKED"
        /\ d.drv_p0w0 = 0 /\ d.mon_p0w0 = 0}

\* The runs explored.  The data path and the flow control do not read each
\* other's state, so every data-path configuration is run under the plain
\* flow configuration, and every flow configuration under the plain data
\* path; runs of several sends use a flow configuration without random
\* backpressure, or MixedFlow.
ConfigSet ==
    {Config(d, PlainFlow, 1) : d \in DataConfigs}
    \cup {Config(d, f, 1) : d \in PlainData, f \in FlowConfigs}
    \cup {Config(d, f, n) : d \in PlainData,
                            f \in {g \in FlowConfigs : g.rsp_mode # "RANDOM"},
                            n \in 1..MaxPkts}
    \cup {Config(d, MixedFlow, MaxPkts) : d \in PlainData}

\* the data of a packet of n bytes: pairwise distinct non-zero bytes with the
\* top bit set, so that a byte moved, dropped or masked shows
PktData(n) == [i \in 1..n |-> 128 + i]

\* the user list of a packet of n bytes: one entry for an odd n, none for an
\* even n, so that packets with and without user data are sent
PktUser(n) == IF n % 2 = 1 THEN <<n>> ELSE <<>>

\* the packets a test hands to send_pkt: pkt_size = len(data)
Packets ==
    {[pkt_size |-> n, delay |-> d, data |-> PktData(n), user |-> PktUser(n)] :
        n \in 0..MaxSize, d \in 0..MaxDelay}

NoPkt == [pkt_size |-> 0, delay |-> 0, data |-> <<>>, user |-> <<>>]

\* the lines after reset: nothing asserted
IdleSig(c) ==
    [tvalid |-> 0, tready |-> 0, tlast |-> 0, tkeep |-> 0, tuser |-> 0,
     tdata  |-> IF c.unpack = "PACKED" THEN {} ELSE [i \in 1..c.W |-> 0]]

-----------------------------------------------------------------------------
(* AxisDriver (src/coco_env/axis_vip.py); ReadyValidDriverBase has the same
   loop with the binding's hooks in place of the drive_* calls *)

\* _get_tvalid_value whose ALWAYS_ON branch alternates like
\* ONE_VALID_ONE_NONVALID
get_tvalid_value_alternating(c, tnx_completed, tvalid_delay, vis, r) ==
    IF c.mode \in {"ALWAYS_ON", "ONE_VALID_ONE_NONVALID"}
    THEN [val |-> IF ~tnx_completed THEN 1 ELSE 0, dly |-> tvalid_delay]
    ELSE IF tnx_completed
         THEN IF tvalid_delay > 0 THEN [val |-> 0, dly |-> tvalid_delay - 1]
              ELSE [val |-> 0, dly |-> r]
         ELSE IF vis = 0
              THEN IF tvalid_delay > 0 THEN [val |-> 0, dly |-> tvalid_delay - 1]
                   ELSE [val |-> 1, dly |-> r]
              ELSE [val |-> vis, dly |-> tvalid_delay]

\* _get_tvalid_value whose ONE_VALID_ONE_NONVALID branch never deasserts
get_tvalid_value_no_gap(c, tnx_completed, tvalid_delay, vis, r) ==
    IF c.mode \in {"ALWAYS_ON", "ONE_VALID_ONE_NONVALID"}
    THEN [val |-> 1, dly |-> tvalid_delay]
    ELSE IF tnx_completed
         THEN IF tvalid_delay > 0 THEN [val |-> 0, dly |-> tvalid_delay - 1]
              ELSE [val |-> 0, dly |-> r]
         ELSE IF vis = 0
              THEN IF tvalid_delay > 0 THEN [val |-> 0, dly |-> tvalid_delay - 1]
                   ELSE [val |-> 1, dly |-> r]
              ELSE [val |-> vis, dly |-> tvalid_delay]

\* _get_tvalid_value whose RANDOM branch takes a stalled beat back
get_tvalid_value_withdraws(c, tnx_completed, tvalid_delay, vis, r) ==
    IF c.mode = "ALWAYS_ON" THEN [val |-> 1, dly |-> tvalid_delay]
    ELSE IF c.mode = "ONE_VALID_ONE_NONVALID"
    THEN [val |-> IF ~tnx_completed THEN 1 ELSE 0, dly |-> tvalid_delay]
    ELSE IF tnx_completed
         THEN IF tvalid_delay > 0 THEN [val |-> 0, dly |-> tvalid_delay - 1]
              ELSE [val |-> 0, dly |-> r]
         ELSE IF vis = 0
              THEN IF tvalid_delay > 0 THEN [val |-> 0, dly |-> tvalid_delay - 1]
                   ELSE [val |-> 1, dly |-> r]
              ELSE [val |-> 0, dly |-> tvalid_delay]

\* _get_tvalid_value: the value for tvalid and the new tvalid_delay.
\* vis is tvalid.value as the coroutine reads it, r the random.randint result.
get_tvalid_value(c, tnx_completed, tvalid_delay, vis, r) ==
    IF c.mode = "ALWAYS_ON" THEN [val |-> 1, dly |-> tvalid_delay]
    ELSE IF c.mode = "ONE_VALID_ONE_NONVALID"
    THEN [val |-> IF ~tnx_completed THEN 1 ELSE 0, dly |-> tvalid_delay]
    ELSE IF tnx_completed
         THEN IF tvalid_delay > 0 THEN [val |-> 0, dly |-> tvalid_delay - 1]
              ELSE [val |-> 0, dly |-> r]
         ELSE IF vis = 0
              THEN IF tvalid_delay > 0 THEN [val |-> 0, dly |-> tvalid_delay - 1]
                   ELSE [val |-> 1, dly |-> r]
              ELSE [val |-> vis, dly |-> tvalid_delay]

\* a random.randint that can draw two above the limit
tvalid_draws_wide(c, tnx_completed, tvalid_delay, vis) ==
    IF c.mode = "RANDOM" /\ tvalid_delay = 0 /\ (tnx_completed \/ vis = 0)
    THEN LET limit == IF tnx_completed THEN c.low ELSE c.high
         IN  IF limit < 1 THEN {-1} ELSE 1..(limit + 2)
    ELSE {0}

\* the results random.randint can give in that call of _get_tvalid_value
\* ({0} when the call draws nothing, {-1} when the range 1..limit is empty
\* and random.randint raises ValueError)
tvalid_draws(c, tnx_completed, tvalid_delay, vis) ==
    IF c.mode = "RANDOM" /\ tvalid_delay = 0 /\ (tnx_completed \/ vis = 0)
    THEN LET limit == IF tnx_completed THEN c.low ELSE c.high
         IN  IF limit < 1 THEN {-1} ELSE 1..limit
    ELSE {0}

\* word_num += 1 on every tick, handshake or not
advance_always(word_num, tnx_completed) == word_num + 1

\* AxisDriver.drive_tuser: pkt.user[0] when the packet has user data,
\* otherwise the line keeps the value cur
drive_tuser(pkt, cur) == IF pkt.user # <<>> THEN pkt.user[1] ELSE cur

\* if tnx_completed: word_num += 1
advance(word_num, tnx_completed) ==
    IF tnx_completed THEN word_num + 1 ELSE word_num

\* a clean-up that leaves tvalid as it is
drive_idle_keep_valid(pnd) == [pnd EXCEPT !.tlast = 0]

\* the clean-up of send_pkt (drive_idle of the base class)
drive_idle(pnd) == [pnd EXCEPT !.tvalid = 0, !.tlast = 0]

\* a drive_tdata that pads the packet's own list: data_chunk taken as a view
\* of pkt.data instead of a slice copy
pkt_after_drive_tdata_in_place(c, pkt, last_word, word_num) ==
    LET start == c.W * word_num
        chunk == IF last_word THEN PySlice(pkt.data, start, Len(pkt.data))
                 ELSE PySlice(pkt.data, start, start + c.W)
    IN  IF Len(chunk) < c.W
        THEN [pkt EXCEPT !.data = @ \o [i \in 1..(c.W - Len(chunk)) |-> 0]]
        ELSE pkt

\* the packet after drive_tdata: data_chunk is a slice of pkt.data, a new
\* list, so extend() pads the copy; ordered_data = list(data_chunk) is a
\* second copy, and reverse() acts on that one.  No field of pkt is assigned.
pkt_after_drive_tdata(c, pkt, last_word, word_num) ==
    LET start      == c.W * word_num
        data_chunk == IF last_word THEN PySlice(pkt.data, start, Len(pkt.data))
                      ELSE PySlice(pkt.data, start, start + c.W)
        extended   == IF Len(data_chunk) < c.W
                      THEN data_chunk \o [i \in 1..(c.W - Len(data_chunk)) |-> 0]
                      ELSE data_chunk
        ordered_data == Reverse(extended)
    IN  [pkt EXCEPT !.data = pkt.data]

\* one pass of the while loop of send_pkt, from its test to the await, or,
\* when the test fails, the clean-up and the return.  When random.randint
\* raises in drive_tvalid (r = -1) the pass ends there, after the writes to
\* the other lines, and send_pkt ends with the ValueError.
send_loop(c, d, pnd, vis, r) ==
    IF d.word_num < d.num_words
    THEN LET last_word == (d.word_num = d.num_words - 1)
             tv == get_tvalid_value(c, d.tnx, d.tvalid_delay, vis, r)
             driven == [pnd EXCEPT
                          !.tlast  = IF c.has_tlast
                                     THEN (IF last_word THEN 1 ELSE 0) ELSE @,
                          !.tuser  = drive_tuser(d.pkt, pnd.tuser),
                          !.tkeep  = IF c.has_tkeep
                                     THEN drive_tkeep(c, d.pkt.pkt_size, last_word)
                                     ELSE @,
                          !.tdata  = drive_tdata(c, d.pkt.data, last_word, d.word_num)]
             after  == pkt_after_drive_tdata(c, d.pkt, last_word, d.word_num)
         IN  IF r = -1
             THEN [drv  |-> [d EXCEPT !.pc = "raised", !.pkt = after],
                   pend |-> driven]
             ELSE [drv  |-> [d EXCEPT !.pc = "beat", !.tvalid_delay = tv.dly,
                                      !.pkt = after],
                   pend |-> [driven EXCEPT !.tvalid = tv.val]]
    ELSE [drv  |-> [d EXCEPT !.pc = "idle"],
          pend |-> drive_idle(pnd)]

\* send_pkt after the initial delay: tvalid = 1, word_num = 0, the beat count
send_enter(c, d, pnd, vis, r) ==
    send_loop(c,
              [d EXCEPT !.word_num = 0,
                        !.num_words = NumWords(d.pkt.pkt_size, c.W)],
              [pnd EXCEPT !.tvalid = 1], vis, r)

\* the observer's counters at the start of a send
ObsStart(o) ==
    [o EXCEPT !.ticks = 0, !.hs = 0, !.allhs = TRUE, !.rdy = TRUE,
              !.gap = 0, !.last_gap = 0, !.wire = <<>>]

\* the test calls send_pkt(p): the code up to the first await
StartSend ==
    /\ drv.pc = "idle"
    /\ Len(sent) < cfg.sends
    /\ \E p \in Packets :
         LET d0 == [drv EXCEPT !.pkt = p, !.tnx = FALSE] IN
         /\ sent' = Append(sent, p)
         /\ IF p.delay > 0
            THEN /\ drv' = [d0 EXCEPT !.pc = "delay", !.left = p.delay]
                 /\ pend' = pend
            ELSE \E r \in tvalid_draws(cfg, FALSE, drv.tvalid_delay, sig.tvalid) :
                   LET res == send_enter(cfg, d0, pend, sig.tvalid, r) IN
                   /\ drv' = res.drv
                   /\ pend' = res.pend
    /\ obs' = ObsStart(obs)
    /\ UNCHANGED <<cfg, sig, runnable, mon, aport, rsp, wb>>

\* send_pkt resumed by a clock edge inside the initial delay loop
DriverDelay ==
    /\ "drv" \in runnable
    /\ drv.pc = "delay"
    /\ IF drv.left > 1
       THEN /\ drv' = [drv EXCEPT !.left = drv.left - 1]
            /\ pend' = pend
       ELSE \E r \in tvalid_draws(cfg, FALSE, drv.tvalid_delay, sig.tvalid) :
              LET res == send_enter(cfg, [drv EXCEPT !.left = 0], pend, sig.tvalid, r) IN
              /\ drv' = res.drv
              /\ pend' = res.pend
    /\ runnable' = runnable \ {"drv"}
    /\ UNCHANGED <<cfg, sig, mon, aport, rsp, sent, obs, wb>>

\* send_pkt resumed by a clock edge inside the while loop: the handshake
\* check, the advance of word_num, and the next pass or the return
DriverBeat ==
    /\ "drv" \in runnable
    /\ drv.pc = "beat"
    /\ LET tnx == Handshake(cfg, sig)
           d1  == [drv EXCEPT !.tnx = tnx,
                              !.word_num = advance(drv.word_num, tnx)]
       IN  \E r \in (IF d1.word_num < d1.num_words
                     THEN tvalid_draws(cfg, tnx, drv.tvalid_delay, sig.tvalid)
                     ELSE {0}) :
             LET res == send_loop(cfg, d1, pend, sig.tvalid, r) IN
             /\ drv' = res.drv
             /\ pend' = res.pend
    /\ runnable' = runnable \ {"drv"}
    /\ UNCHANGED <<cfg, sig, mon, aport, rsp, sent, obs, wb>>

-----------------------------------------------------------------------------
(* AxisMonitor (src/coco_env/axis_vip.py) *)

\* a completion test that looks at VALID alone
mon_completed_valid_only(c, s) == s.tvalid # 0

\* a completion test that looks at READY alone
mon_completed_ready_only(c, s) == c.has_tready => s.tready # 0

\* mon_if: tnx_completed, the monitor's own test of the sampled lines
mon_completed(c, s) ==
    IF ~c.has_tready THEN s.tvalid # 0
    ELSE s.tvalid # 0 /\ s.tready # 0

\* mon_if is started: it runs to its first await
MonitorStart ==
    /\ mon.pc = "start"
    /\ mon' = [mon EXCEPT !.pc = "wait"]
    /\ UNCHANGED <<cfg, sig, pend, runnable, drv, aport, rsp, sent, obs, wb>>

\* write_aport that counts the packet before it names it
write_aport_counted_first(c, m) ==
    LET built == words_to_bytes(m.data, m.pkt_size, c.W)
    IN  [name |-> m.pkt_cntr + 1, pkt_size |-> built.pkt_size, data |-> built.data]

\* write_aport: the packet built from the accumulated words
write_aport(c, m) ==
    LET built == words_to_bytes(m.data, m.pkt_size, c.W)
    IN  [name |-> m.pkt_cntr, pkt_size |-> built.pkt_size, data |-> built.data]

\* a reset that forgets the size counter
reset_state_keep_size(m) == [m EXCEPT !.data = <<>>]

\* write_aport, "Reset state": self.data = [], self.pkt_size = 0
reset_state(m) == [m EXCEPT !.data = <<>>, !.pkt_size = 0]

\* a fallback that takes every beat for the last one of a packet
handle_no_tlast_every_beat(m) == [exc |-> "ok", is_last |-> TRUE]

\* AxisMonitor._handle_no_tlast, not overridden: it raises ValueError
handle_no_tlast(m) == [exc |-> "ValueError", is_last |-> FALSE]

\* AxisMonitor._handle_no_tkeep, not overridden: it raises ValueError
handle_no_tkeep(m) == [exc |-> "ValueError", mask |-> {}]

\* mon_if resumed by a clock edge: one pass of its loop.  Without a tkeep
\* line _handle_no_tkeep is called before the word is buffered, without a
\* tlast line _handle_no_tlast after it; an exception ends mon_if.
MonitorSample ==
    /\ "mon" \in runnable
    /\ mon.pc = "wait"
    /\ IF ~mon_completed(cfg, sig) THEN UNCHANGED <<mon, aport>>
       ELSE IF ~cfg.has_tkeep /\ handle_no_tkeep(mon).exc # "ok"
       THEN /\ mon' = [mon EXCEPT !.pc = "raised"]
            /\ aport' = aport
       ELSE LET tdata_int  == sample_tdata(cfg, sig.tdata)
                tkeep_mask == IF cfg.has_tkeep THEN mon_tkeep_mask(cfg, sig.tkeep)
                              ELSE handle_no_tkeep(mon).mask
                count      == IF cfg.has_tkeep THEN mon_tkeep_count(cfg, sig.tkeep)
                              ELSE 0
                m1 == [mon EXCEPT
                         !.pkt_size = mon.pkt_size + count,
                         !.data     = Append(mon.data, tdata_int \cap tkeep_mask),
                         !.last     = [mask  |-> tkeep_mask,
                                       count |-> count,
                                       tlast |-> sig.tlast,
                                       seen  |-> TRUE]]
                is_last == IF cfg.has_tlast THEN sig.tlast = 1
                           ELSE handle_no_tlast(mon).is_last
            IN  IF ~cfg.has_tlast /\ handle_no_tlast(mon).exc # "ok"
                THEN /\ mon' = [m1 EXCEPT !.pc = "raised"]
                     /\ aport' = aport
                ELSE IF is_last
                THEN /\ aport' = Append(aport, write_aport(cfg, m1))
                     /\ mon' = [reset_state(m1) EXCEPT
                                  !.pkt_cntr = mon.pkt_cntr + 1]
                ELSE /\ aport' = aport
                     /\ mon' = m1
    /\ runnable' = runnable \ {"mon"}
    /\ UNCHANGED <<cfg, sig, pend, drv, rsp, sent, obs, wb>>

-----------------------------------------------------------------------------
(* AxisResponder (src/coco_env/axis_vip.py) *)

\* tready_ctrl that asserts VALID along with READY
tready_loop_drives_valid(c, r, pnd, a) ==
    IF c.rsp_mode = "RANDOM"
    THEN [rsp  |-> [r EXCEPT !.pc = "active", !.left = a],
          pend |-> [pnd EXCEPT !.tready = 1, !.tvalid = 1]]
    ELSE [rsp  |-> [r EXCEPT !.pc = "on", !.left = 0],
          pend |-> [pnd EXCEPT !.tready = 1, !.tvalid = 1]]

\* tready_ctrl that alternates READY under ONE_VALID_ONE_NONVALID
tready_loop_alternating(c, r, pnd, a) ==
    IF c.rsp_mode = "RANDOM"
    THEN [rsp  |-> [r EXCEPT !.pc = "active", !.left = a],
          pend |-> [pnd EXCEPT !.tready = 1]]
    ELSE [rsp  |-> [r EXCEPT !.pc = "on", !.left = 0],
          pend |-> [pnd EXCEPT !.tready =
                      IF c.rsp_mode = "ONE_VALID_ONE_NONVALID" /\ pnd.tready = 1
                      THEN 0 ELSE 1]]

\* the while loop of tready_ctrl from its top to the next await.
\* a is the drawn active_cycles
tready_loop(c, r, pnd, a) ==
    IF c.rsp_mode = "RANDOM"
    THEN [rsp  |-> [r EXCEPT !.pc = "active", !.left = a],
          pend |-> [pnd EXCEPT !.tready = 1]]
    ELSE [rsp  |-> [r EXCEPT !.pc = "on", !.left = 0],
          pend |-> [pnd EXCEPT !.tready = 1]]

\* an active phase drawn one tick too long
active_draws_wide(c) == IF c.rsp_mode = "RANDOM" THEN 1..(ActiveMax + 1) ELSE {0}

\* random.randint(1, 10), drawn only in RANDOM mode
active_draws(c) == IF c.rsp_mode = "RANDOM" THEN 1..ActiveMax ELSE {0}

\* tready_ctrl is started: it returns at once when no tready line is bound
ResponderStart ==
    /\ rsp.pc = "start"
    /\ IF ~cfg.has_tready
       THEN /\ rsp' = [rsp EXCEPT !.pc = "done"]
            /\ pend' = pend
       ELSE \E a \in active_draws(cfg) :
              LET res == tready_loop(cfg, rsp, pend, a) IN
              /\ rsp' = res.rsp
              /\ pend' = res.pend
    /\ UNCHANGED <<cfg, sig, runnable, drv, mon, aport, sent, obs, wb>>

\* tready_ctrl resumed by a clock edge in ALWAYS_ON (or the default branch)
ResponderOn ==
    /\ "rsp" \in runnable
    /\ rsp.pc = "on"
    /\ LET res == tready_loop(cfg, rsp, pend, 0) IN
       /\ rsp' = res.rsp
       /\ pend' = res.pend
    /\ runnable' = runnable \ {"rsp"}
    /\ UNCHANGED <<cfg, sig, drv, mon, aport, sent, obs, wb>>

\* tready_ctrl resumed in the active phase: after the last active cycle it
\* writes tready = 0 and draws the backpressure length; random.randint
\* raises ValueError when backpressure_min_delay > backpressure_max_delay
ResponderActive ==
    /\ "rsp" \in runnable
    /\ rsp.pc = "active"
    /\ IF rsp.left > 1
       THEN /\ rsp' = [rsp EXCEPT !.left = rsp.left - 1]
            /\ pend' = pend
       ELSE IF cfg.bp_min > cfg.bp_max
       THEN /\ rsp' = [rsp EXCEPT !.pc = "raised"]
            /\ pend' = [pend EXCEPT !.tready = 0]
       ELSE \E w \in cfg.bp_min..cfg.bp_max :
              IF w > 0
              THEN /\ rsp' = [rsp EXCEPT !.pc = "backpr", !.left = w]
                   /\ pend' = [pend EXCEPT !.tready = 0]
              ELSE \E a \in active_draws(cfg) :
                     LET res == tready_loop(cfg, rsp, [pend EXCEPT !.tready = 0], a) IN
                     /\ rsp' = res.rsp
                     /\ pend' = res.pend
    /\ runnable' = runnable \ {"rsp"}
    /\ UNCHANGED <<cfg, sig, drv, mon, aport, sent, obs, wb>>

\* tready_ctrl resumed in the backpressure phase
ResponderBackpressure ==
    /\ "rsp" \in runnable
    /\ rsp.pc = "backpr"
    /\ IF rsp.left > 1
       THEN /\ rsp' = [rsp EXCEPT !.left = rsp.left - 1]
            /\ pend' = pend
       ELSE \E a \in active_draws(cfg) :
              LET res == tready_loop(cfg, rsp, pend, a) IN
              /\ rsp' = res.rsp
              /\ pend' = res.pend
    /\ runnable' = runnable \ {"rsp"}
    /\ UNCHANGED <<cfg, sig, drv, mon, aport, sent, obs, wb>>

-----------------------------------------------------------------------------
(* The clock and the observer of the wire *)

\* a run of READY is counted up to two more than the longest active phase
RunCap == ActiveMax + 2

\* ticks counts the edges of a send up to one more than delay + beat count
TickCap(c, d) == d.pkt.delay + NumWords(d.pkt.pkt_size, c.W) + 1

\* what an observer of the lines records at a clock edge: s is the values
\* that become visible at the edge, d the driver as it waits for the edge
ObsTick(c, o, d, s) ==
    IF d.pc = "delay" THEN [o EXCEPT !.ticks = Min(o.ticks + 1, TickCap(c, d))]
    ELSE IF d.pc = "beat"
    THEN LET hs == Handshake(c, s) IN
         [o EXCEPT
            !.ticks    = Min(o.ticks + 1, TickCap(c, d)),
            !.hs       = IF hs THEN o.hs + 1 ELSE o.hs,
            !.allhs    = o.allhs /\ hs,
            !.rdy      = o.rdy /\ (c.has_tready => s.tready = 1),
            !.gap      = IF hs THEN 0
                         ELSE IF s.tvalid = 0 THEN o.gap + 1 ELSE o.gap,
            !.last_gap = IF hs THEN o.gap ELSE o.last_gap,
            !.wire     = IF hs
                         THEN Append(o.wire, [tdata |-> s.tdata, tlast |-> s.tlast,
                                              tkeep |-> s.tkeep])
                         ELSE o.wire]
    ELSE o

\* the runs of READY as the edges show them, recorded when o.track is set:
\* rval and rlen are the value and the length of the run in progress
\* (counted up to RunCap), rdone the last run that ended (len 0: none yet)
ObsReady(o, s) ==
    IF ~o.track THEN o
    ELSE IF s.tready = o.rval
    THEN [o EXCEPT !.rlen = Min(o.rlen + 1, RunCap)]
    ELSE [o EXCEPT !.rval = s.tready, !.rlen = 1,
                   !.rdone = [val |-> o.rval, len |-> o.rlen]]

\* a rising clock edge: the scheduled writes become visible and every
\* coroutine waiting for the edge is resumed.  The monitor and the responder
\* are started by the test before the first edge.  A coroutine ended by an
\* exception fails the test, and the simulation ends: no edge follows.
Tick ==
    /\ runnable = {}
    /\ mon.pc # "start"
    /\ rsp.pc # "start"
    /\ drv.pc # "raised" /\ rsp.pc # "raised" /\ mon.pc # "raised"
    /\ sig' = pend
    /\ runnable' = (IF drv.pc \in {"delay", "beat"} THEN {"drv"} ELSE {})
                   \cup (IF mon.pc = "wait" THEN {"mon"} ELSE {})
                   \cup (IF rsp.pc \in {"on", "active", "backpr"} THEN {"rsp"} ELSE {})
    /\ obs' = ObsReady(ObsTick(cfg, obs, drv, pend), pend)
    /\ UNCHANGED <<cfg, pend, drv, mon, aport, rsp, sent, wb>>

-----------------------------------------------------------------------------
(* The system: one interface with its driver, monitor and responder *)

WbIdle == [pc |-> "off", B |-> <<>>, W |-> 1, words |-> <<>>, out |-> <<>>,
           slicer |-> "none", builder |-> "none"]

\* the state after construction of the interface, driver, monitor and
\* responder under configuration c; t: the runs of READY are recorded
SysInitTracked(c, t) ==
    /\ cfg = c
    /\ sig = IdleSig(c)
    /\ pend = IdleSig(c)
    /\ runnable = {}
    /\ drv = [pc |-> "idle", pkt |-> NoPkt, left |-> 0, word_num |-> 0,
              num_words |-> 0, tnx |-> FALSE, tvalid_delay |-> 0]
    /\ mon = [pc |-> "start", data |-> <<>>, pkt_size |-> 0, pkt_cntr |-> 0,
              last |-> [mask |-> {}, count |-> 0, tlast |-> 0, seen |-> FALSE]]
    /\ aport = <<>>
    /\ rsp = [pc |-> "start", left |-> 0]
    /\ sent = <<>>
    /\ obs = [ticks |-> 0, hs |-> 0, allhs |-> TRUE, rdy |-> TRUE,
              gap |-> 0, last_gap |-> 0, wire |-> <<>>,
              track |-> t, rval |-> 0, rlen |-> 0,
              rdone |-> [val |-> 0, len |-> 0]]

SysInit(c) == SysInitTracked(c, FALSE)

Init ==
    /\ \E c \in ConfigSet : SysInit(c)
    /\ wb = WbIdle

Next ==
    \/ StartSend
    \/ DriverDelay
    \/ DriverBeat
    \/ MonitorStart
    \/ MonitorSample
    \/ ResponderStart
    \/ ResponderOn
    \/ ResponderActive
    \/ ResponderBackpressure
    \/ Tick

Spec == Init /\ [][Next]_vars

-----------------------------------------------------------------------------
(* WordSpec: the word/byte conversions applied to drawn inputs *)

Slicers  == {"Packet.get_word_list", "bin_operation.get_word_list"}
Builders == {"words_to_bytes", "write_word_list", "get_byte_list"}

\* every byte sequence of length 1..MaxLen over ByteVals
ByteSeqs == UNION {[1..n -> ByteVals] : n \in 1..MaxLen}

sys_vars == <<cfg, sig, pend, runnable, drv, mon, aport, rsp, sent, obs>>

InitWords ==
    /\ SysInit(Config(CHOOSE d \in PlainData : TRUE, PlainFlow, 1))
    /\ \E B \in ByteSeqs, W \in 1..(MaxLen + 1) :
         wb = [WbIdle EXCEPT !.pc = "input", !.B = B, !.W = W]

\* the byte sequence is written to a packet (write_data: pkt_size = len) and
\* sliced into words of wb.W bytes
WordsSlice ==
    /\ wb.pc = "input"
    /\ \E sl \in Slicers :
         wb' = [wb EXCEPT
                  !.pc = "sliced", !.slicer = sl,
                  !.words = IF sl = "Packet.get_word_list"
                            THEN pkt_get_word_list(
                                     [pkt_size |-> Len(wb.B), data |-> wb.B], wb.W)
                            ELSE get_word_list(wb.B, wb.W, Len(wb.B))]
    /\ UNCHANGED sys_vars

\* the words are turned back into bytes with total_bytes = len(B)
WordsBuild ==
    /\ wb.pc = "sliced"
    /\ \E bl \in Builders :
         wb' = [wb EXCEPT
                  !.pc = "built", !.builder = bl,
                  !.out = IF bl = "words_to_bytes"
                          THEN words_to_bytes(wb.words, Len(wb.B), wb.W).data
                          ELSE IF bl = "write_word_list"
                          THEN write_word_list(wb.words, Len(wb.B), wb.W).data
                          ELSE get_byte_list(wb.words, wb.W, Len(wb.B))]
    /\ UNCHANGED sys_vars

NextWords == WordsSlice \/ WordsBuild

WordSpec == InitWords /\ [][NextWords]_vars

-----------------------------------------------------------------------------
(* Vocabulary of the properties *)

\* send_pkt has returned (at least one send was made and none is running)
Returned == drv.pc = "idle" /\ sent # <<>>

\* the packet of the running send, or of the last one
LastSent == sent[Len(sent)]

\* ceil(size / W), stated by its bounds: the least n with n * W >= size
CeilDiv(size, W) ==
    CHOOSE n \in 0..size : n * W >= size /\ (n = 0 \/ (n - 1) * W < size)

\* the beats of a packet: ceil(size / W), and one beat for an empty packet
BeatsOf(p) == IF p.pkt_size = 0 THEN 1 ELSE CeilDiv(p.pkt_size, cfg.W)

\* the bits of byte positions lo..hi of a word
ByteLanes(lo, hi) == UNION {Shl(0..7, i * 8) : i \in lo..hi}

\* driver and monitor are given the same pkt0_word0
SameConvention == cfg.drv_p0w0 = cfg.mon_p0w0

-----------------------------------------------------------------------------
(* C1..C10 *)

\* C1: end-to-end reconstruction.  With pkt0_word0 = 1 on the driver and the
\* monitor, the k-th packet in aport has the size and the bytes of the k-th
\* packet sent, for every packet of size >= 1.
C1_EndToEnd ==
    \A k \in 1..Len(aport) :
        (k <= Len(sent) /\ cfg.drv_p0w0 = 1 /\ cfg.mon_p0w0 = 1
           /\ sent[k].pkt_size >= 1)
        => (aport[k].pkt_size = sent[k].pkt_size /\ aport[k].data = sent[k].data)

\* C2: word round trip.  Slicing a byte sequence B (length >= 1) into words
\* of W bytes with either get_word_list and rebuilding it with
\* words_to_bytes, write_word_list or get_byte_list (total = len(B), the
\* same W) gives B back.
C2_RoundTrip == wb.pc = "built" => wb.out = wb.B

\* a byte sequence that ends inside a word and has been rebuilt by
\* words_to_bytes from more than one word
C2_Witness ==
    /\ wb.pc = "built" /\ wb.builder = "words_to_bytes"
    /\ wb.W = 3 /\ Len(wb.B) = 4 /\ Len(wb.words) = 2
    /\ wb.B[4] = 255 /\ wb.B[1] = 0

\* C3: validity masking on decode.  After the monitor sampled the final
\* beat of a packet with r = size mod W # 0, the count it added is r and
\* the mask it applied keeps byte positions 0..r-1 of the word (positions
\* W-r..W-1 when pkt0_word0 = 0) and nothing else.
C3_DecodeMask ==
    LET k == mon.pkt_cntr
        r == sent[k].pkt_size % cfg.W
    IN  (mon.last.seen /\ mon.last.tlast = 1 /\ k \in 1..Len(sent)
           /\ SameConvention /\ r # 0)
        => /\ mon.last.count = r
           /\ mon.last.mask = IF cfg.mon_p0w0 = 1 THEN ByteLanes(0, r - 1)
                              ELSE ByteLanes(cfg.W - r, cfg.W - 1)

\* C4: validity mask on drive.  While a beat is driven, tkeep (packed
\* encoding) has all W bits set on a non-final beat and on a final beat of a
\* packet whose size is a multiple of W; on a final beat with
\* r = size mod W # 0 it has exactly the r low bits set, or only bit r-1
\* under FFS; with pkt0_word0 = 0 the value is mirrored within W bits.
C4_DriveTkeep ==
    drv.pc = "beat" =>
        LET W     == cfg.W
            r     == drv.pkt.pkt_size % W
            final == (drv.word_num = drv.num_words - 1)
            part  == final /\ r # 0
            bits  == Bits(pend.tkeep, W + 2)
            want  == IF part
                     THEN (IF cfg.keep_type = "FFS" THEN {r - 1} ELSE 0..(r - 1))
                     ELSE 0..(W - 1)
        IN  (part \/ cfg.keep_type # "FFS")
            => bits = IF cfg.drv_p0w0 = 0 THEN {W - 1 - i : i \in want} ELSE want

\* a final beat of two real bytes out of three is driven, mirrored
C4_Witness ==
    /\ drv.pc = "beat" /\ drv.word_num = drv.num_words - 1 /\ drv.word_num = 1
    /\ cfg.W = 3 /\ drv.pkt.pkt_size = 5
    /\ cfg.drv_p0w0 = 0 /\ cfg.keep_type = "PACKED"
    /\ pend.tkeep = 6

\* C5: decode inverts drive for the byte count.  With the same pkt0_word0 on
\* driver and monitor, under every keep encoding, the pkt_size of the k-th
\* packet in aport is the size of the k-th packet sent (size >= 1).
C5_ByteCount ==
    \A k \in 1..Len(aport) :
        (k <= Len(sent) /\ SameConvention /\ sent[k].pkt_size >= 1)
        => aport[k].pkt_size = sent[k].pkt_size

\* C6: beat count.  When a send has returned, the handshakes seen on the
\* wire during it number ceil(size / W), and 1 for an empty packet.
C6_BeatCount == Returned => obs.hs = BeatsOf(LastSent)

\* a send of three beats that was stalled has returned
C6_Witness ==
    /\ Returned /\ obs.hs = 3 /\ LastSent.pkt_size = 5 /\ cfg.W = 2
    /\ ~obs.allhs

\* C7: tick conservation.  Under ALWAYS_ON, when READY was 1 on every tick
\* of the send (or no READY line is bound), every tick after the initial
\* delay was a handshake, and the send returns after exactly delay + beats
\* clock edges.
C7_TickConservation ==
    (sent # <<>> /\ cfg.mode = "ALWAYS_ON" /\ obs.rdy)
    => /\ obs.allhs
       /\ Returned => obs.ticks = LastSent.delay + BeatsOf(LastSent)

\* a delayed send of three beats has returned under a random responder
\* that happened to keep READY asserted
C7_Witness ==
    /\ Returned /\ cfg.mode = "ALWAYS_ON" /\ obs.rdy
    /\ cfg.has_tready /\ cfg.rsp_mode = "RANDOM"
    /\ LastSent.delay = 1 /\ LastSent.pkt_size = 5 /\ obs.ticks = 4

\* the driver is resumed inside the while loop of send_pkt
DriverBeatStep == drv.pc = "beat" /\ "drv" \in runnable /\ "drv" \notin runnable'

\* C8: stall discipline.  A resumption of the send loop adds one to the beat
\* index when the tick was a handshake and leaves it alone otherwise; after a
\* tick without handshake the data, last flag and mask written for the next
\* tick are those that were on the wire; and when the send has returned the
\* beats transferred are the beats 0..N-1 of the packet, each once, in order.
C8_StallDiscipline ==
    /\ [][DriverBeatStep =>
            IF Handshake(cfg, sig)
            THEN drv'.word_num = drv.word_num + 1
            ELSE /\ drv'.word_num = drv.word_num
                 /\ drv'.pc = "beat"
                 /\ pend'.tdata = sig.tdata
                 /\ pend'.tlast = sig.tlast
                 /\ pend'.tkeep = sig.tkeep]_vars
    /\ [](Returned =>
            /\ Len(obs.wire) = BeatsOf(LastSent)
            /\ \A i \in 1..Len(obs.wire) :
                 LET final == (i = BeatsOf(LastSent)) IN
                 /\ obs.wire[i].tdata = drive_tdata(cfg, LastSent.data, final, i - 1)
                 /\ obs.wire[i].tlast = IF final THEN 1 ELSE 0)

\* a send of several beats that was stalled on its second beat has returned
C8_Witness ==
    /\ Returned /\ Len(obs.wire) >= 2 /\ ~obs.allhs
    /\ obs.ticks > LastSent.delay + BeatsOf(LastSent)

\* C9: idle after send.  When send_pkt has returned the values written are
\* VALID = 0 and tlast = 0, and a clock edge that finds the driver returned
\* shows no handshake.
C9_IdleAfterSend ==
    /\ [](Returned => pend.tvalid = 0 /\ pend.tlast = 0)
    /\ [][(Tick /\ Returned) => ~Handshake(cfg, sig')]_vars

\* after a send, an edge has passed with READY asserted and nothing
\* transferred
C9_Witness ==
    /\ Returned /\ Len(aport) = Len(sent) /\ runnable = {}
    /\ cfg.has_tready /\ sig.tready = 1 /\ sig.tvalid = 0 /\ sig.tlast = 0

\* C10 as stated: under ONE_VALID_ONE_NONVALID the VALID value written for
\* the next tick is 0 exactly when the tick just elapsed was a handshake, and
\* between two handshakes of a send VALID is deasserted on exactly one tick.
C10_Original ==
    cfg.mode = "ONE_VALID_ONE_NONVALID" =>
        /\ (drv.pc = "beat" /\ "drv" \notin runnable)
           => pend.tvalid = IF Handshake(cfg, sig) THEN 0 ELSE 1
        /\ obs.hs >= 2 => obs.last_gap = 1

\* C10 amended: the VALID value written for the next tick is 0 exactly when
\* the tick just elapsed was a handshake of the same send; between two
\* handshakes of one send VALID is deasserted on exactly one tick.
C10_OneValidOneNonvalid ==
    cfg.mode = "ONE_VALID_ONE_NONVALID" =>
        /\ (drv.pc = "beat" /\ "drv" \notin runnable)
           => pend.tvalid = IF obs.ticks >= 1 /\ Handshake(cfg, sig) THEN 0 ELSE 1
        /\ obs.hs >= 2 => obs.last_gap = 1

\* a second beat completed after the one-tick gap and a stall by READY
C10_Witness ==
    /\ cfg.mode = "ONE_VALID_ONE_NONVALID" /\ obs.hs >= 2 /\ obs.last_gap = 1
    /\ cfg.has_tready /\ cfg.rsp_mode = "RANDOM" /\ ~obs.rdy

-----------------------------------------------------------------------------
(* C11..C20 *)

\* C11: the RANDOM VALID policy as a countdown-gated toggle.  On a
\* resumption of the send loop that drives a beat: while tvalid_delay > 0 the
\* VALID written is the one on the wire and tvalid_delay goes down by one;
\* VALID changes only at tvalid_delay = 0, and then tvalid_delay is redrawn
\* from 1..tvalid_low_limit after a completion and from 1..tvalid_high_limit
\* when VALID is deasserted.
C11_RandomToggle ==
    [][(DriverBeatStep /\ cfg.mode = "RANDOM" /\ drv'.pc = "beat") =>
         IF drv.tvalid_delay > 0
         THEN /\ pend'.tvalid = sig.tvalid
              /\ drv'.tvalid_delay = drv.tvalid_delay - 1
         ELSE pend'.tvalid # sig.tvalid
              => drv'.tvalid_delay \in
                   1..(IF Handshake(cfg, sig) THEN cfg.low ELSE cfg.high)]_vars

\* C12: driver and monitor agree on the handshake.  At every tick the
\* monitor's completion test gives what check_transaction_completion gives
\* (VALID alone without a READY line, VALID and READY otherwise); so, once
\* both have run for a tick, the beats the monitor holds for the packet being
\* sent are as many as the beat index of the driver.
C12_HandshakeAgreement ==
    /\ mon_completed(cfg, sig) = Handshake(cfg, sig)
    /\ (drv.pc = "beat" /\ runnable \cap {"drv", "mon"} = {})
       => Len(mon.data) = drv.word_num

\* two beats of a send were taken by both sides, READY having stalled it
C12_Witness ==
    /\ drv.pc = "beat" /\ runnable = {} /\ cfg.has_tready
    /\ drv.word_num = 2 /\ Len(mon.data) = 2 /\ ~obs.rdy

\* the monitor is resumed by a clock edge
MonitorStep == "mon" \in runnable /\ "mon" \notin runnable'

\* the tick just elapsed completed a beat that carries the end marker
EndBeat == Handshake(cfg, sig) /\ sig.tlast = 1

\* C13: monitor ordering.  aport changes only when the monitor processes a
\* completed end-of-packet beat, and then by one packet appended at its end,
\* with pkt_cntr going up by one; on every other step aport and pkt_cntr stay
\* the same; the k-th packet of aport carries counter value k-1.
C13_MonitorOrdering ==
    /\ [](/\ mon.pkt_cntr = Len(aport)
          /\ \A k \in 1..Len(aport) : aport[k].name = k - 1)
    /\ [][IF MonitorStep /\ EndBeat
          THEN /\ Len(aport') = Len(aport) + 1
               /\ SubSeq(aport', 1, Len(aport)) = aport
               /\ mon'.pkt_cntr = mon.pkt_cntr + 1
          ELSE /\ aport' = aport
               /\ mon'.pkt_cntr = mon.pkt_cntr]_vars

\* the second packet has been emitted after the first
C13_Witness ==
    /\ Len(aport) = 2 /\ mon.pkt_cntr = 2
    /\ aport[1].name = 0 /\ aport[2].name = 1
    /\ aport[1].pkt_size # aport[2].pkt_size

\* what the monitor decodes from beat i (from 0) of packet p as the driver
\* puts it on the lines: the masked word and the byte count
BeatWord(p, i) ==
    LET final == (i = BeatsOf(p) - 1) IN
    sample_tdata(cfg, drive_tdata(cfg, p.data, final, i))
        \cap mon_tkeep_mask(cfg, drive_tkeep(cfg, p.pkt_size, final))

BeatBytes(p, i) ==
    mon_tkeep_count(cfg, drive_tkeep(cfg, p.pkt_size, i = BeatsOf(p) - 1))

\* the packet built from the beats of p and from nothing else
FromOwnBeats(p) ==
    words_to_bytes([i \in 1..BeatsOf(p) |-> BeatWord(p, i - 1)],
                   SeqSum([i \in 1..BeatsOf(p) |-> BeatBytes(p, i - 1)]),
                   cfg.W)

\* C14: monitor boundary isolation.  Right after an end-of-packet beat is
\* processed the buffer of raw beats is empty and the size counter is 0; the
\* k-th packet emitted is built from the beats of the k-th send and from no
\* other beat or byte count; and a packet once emitted never changes.
C14_BoundaryIsolation ==
    /\ [](\A k \in 1..Len(aport) :
            /\ k <= Len(sent)
            /\ aport[k].pkt_size = FromOwnBeats(sent[k]).pkt_size
            /\ aport[k].data = FromOwnBeats(sent[k]).data)
    /\ [][(MonitorStep /\ EndBeat) => (mon'.data = <<>> /\ mon'.pkt_size = 0)]_vars
    /\ [][\A k \in 1..Len(aport) : k <= Len(aport') /\ aport'[k] = aport[k]]_vars

\* beats of a second packet are in the buffer while the first packet, of
\* several beats, sits in aport
C14_Witness ==
    /\ Len(aport) = 1 /\ Len(sent) = 2 /\ Len(mon.data) = 2
    /\ sent[1].pkt_size = 3 /\ aport[1].pkt_size = 3
    /\ mon.pkt_size = 4

\* C15: driver and monitor run concurrently.  A tick without handshake
\* leaves the monitor as it is; the monitor meets an end-of-packet beat with
\* exactly beatCount - 1 beats of the oldest send not yet emitted in its
\* buffer; and once every send has returned and the monitor has run, aport
\* holds one packet per send, in send order, and the buffer is empty.
C15_Concurrency ==
    /\ []((Returned /\ runnable \cap {"drv", "mon"} = {})
          => /\ Len(aport) = Len(sent)
             /\ mon.data = <<>>
             /\ \A k \in 1..Len(sent) :
                  /\ aport[k].name = k - 1
                  /\ aport[k].data = FromOwnBeats(sent[k]).data)
    /\ [][(MonitorStep /\ EndBeat)
          => /\ Len(aport) < Len(sent)
             /\ Len(mon.data) + 1 = BeatsOf(sent[Len(aport) + 1])]_vars
    /\ [][(MonitorStep /\ ~Handshake(cfg, sig))
          => (mon' = mon /\ aport' = aport)]_vars

\* two sends of different sizes have returned, VALID and READY having both
\* stalled the second, and the monitor has emitted both packets
C15_Witness ==
    /\ Returned /\ runnable = {} /\ Len(sent) = 2 /\ Len(aport) = 2
    /\ cfg.mode = "ONE_VALID_ONE_NONVALID" /\ cfg.rsp_mode = "RANDOM"
    /\ sent[1].pkt_size = 5 /\ sent[2].pkt_size = 3
    /\ aport[1].pkt_size = 5 /\ aport[2].pkt_size = 3
    /\ ~obs.rdy

\* C16: the ready controller outside RANDOM.  With a READY line bound and a
\* mode other than RANDOM, once tready_ctrl is started the value written for
\* READY is 1 and never 0, and READY is 1 at every clock edge.
C16_ReadyAlwaysOn ==
    /\ []((cfg.has_tready /\ cfg.rsp_mode # "RANDOM" /\ rsp.pc # "start")
          => pend.tready = 1)
    /\ [][(Tick /\ cfg.has_tready /\ cfg.rsp_mode # "RANDOM")
          => sig'.tready = 1]_vars

\* a send has gone through under a controller in ONE_VALID_ONE_NONVALID,
\* READY being 1 after several ticks
C16_Witness ==
    /\ cfg.has_tready /\ cfg.rsp_mode = "ONE_VALID_ONE_NONVALID"
    /\ Returned /\ obs.ticks >= 3 /\ obs.rdy
    /\ sig.tready = 1 /\ rsp.pc = "on"

-----------------------------------------------------------------------------
(* ReadySpec: the ready controller and the clock, with the runs of READY
   recorded; the test starts the monitor and the controller and sends
   nothing *)

ReadyConfigs ==
    {Config(d, f, 1) : d \in PlainData,
                       f \in {g \in FlowConfigs :
                                g.has_tready /\ g.mode = "ALWAYS_ON"}}

InitReady ==
    /\ \E c \in ReadyConfigs : SysInitTracked(c, TRUE)
    /\ wb = WbIdle

NextReady ==
    \/ MonitorStart
    \/ MonitorSample
    \/ ResponderStart
    \/ ResponderOn
    \/ ResponderActive
    \/ ResponderBackpressure
    \/ Tick

\* the simulator keeps the clock running and resumes every coroutine that
\* waits for an edge
ReadySpec == InitReady /\ [][NextReady]_vars /\ WF_vars(NextReady)

\* C17: the ready controller in RANDOM mode.  READY is asserted and
\* deasserted again and again; a run of READY = 1 lasts between 1 and 10
\* ticks and a run of READY = 0 between backpressure_min_delay and
\* backpressure_max_delay ticks (backpressure_min_delay >= 1).
C17_ReadyRandom ==
    /\ [](cfg.rsp_mode = "RANDOM" =>
            /\ obs.rval = 1 => obs.rlen <= ActiveMax
            /\ obs.rval = 0 => obs.rlen <= cfg.bp_max
            /\ (obs.rdone.len > 0 /\ obs.rdone.val = 1)
               => obs.rdone.len \in 1..ActiveMax
            /\ (obs.rdone.len > 0 /\ obs.rdone.val = 0)
               => obs.rdone.len \in cfg.bp_min..cfg.bp_max)
    /\ []<>(cfg.rsp_mode = "RANDOM" => sig.tready = 1)
    /\ []<>(cfg.rsp_mode = "RANDOM" => sig.tready = 0)

\* a run of ten ticks of READY = 1 is over and the longest run of READY = 0
\* the configuration allows is in progress
C17_Witness ==
    /\ cfg.rsp_mode = "RANDOM" /\ cfg.bp_min = 1 /\ cfg.bp_max = MaxBp
    /\ obs.rdone = [val |-> 1, len |-> ActiveMax]
    /\ obs.rval = 0 /\ obs.rlen = MaxBp

\* C18: the ready controller without a READY line.  tready_ctrl returns when
\* it is started, having written nothing; it never waits for an edge and
\* READY is never written; driver and monitor then take VALID alone for the
\* handshake, and the driver advances exactly on the ticks that show VALID.
C18_NoReadyLine ==
    /\ [](~cfg.has_tready =>
            /\ rsp.pc \in {"start", "done"}
            /\ "rsp" \notin runnable
            /\ pend.tready = 0 /\ sig.tready = 0
            /\ Handshake(cfg, sig) = (sig.tvalid # 0)
            /\ mon_completed(cfg, sig) = (sig.tvalid # 0))
    /\ [][(~cfg.has_tready /\ rsp.pc = "start" /\ rsp'.pc # "start")
          => (rsp'.pc = "done" /\ pend' = pend /\ sig' = sig
              /\ runnable' = runnable)]_vars
    /\ [][(~cfg.has_tready /\ DriverBeatStep)
          => ((drv'.word_num = drv.word_num + 1) = (sig.tvalid # 0))]_vars

\* a send of several beats, stalled by VALID alone, has returned with no
\* READY line and the controller gone
C18_Witness ==
    /\ ~cfg.has_tready /\ rsp.pc = "done" /\ Returned
    /\ obs.hs >= 2 /\ ~obs.allhs /\ sig.tready = 0
    /\ Len(aport) = Len(sent)

-----------------------------------------------------------------------------
(* Spec again: the steps of each component *)

\* a step of send_pkt, of tready_ctrl, of mon_if
DriverStep == sent' # sent \/ ("drv" \in runnable /\ "drv" \notin runnable')
ResponderStep ==
    \/ rsp.pc = "start" /\ rsp'.pc # "start"
    \/ "rsp" \in runnable /\ "rsp" \notin runnable'
MonitorAnyStep == (mon.pc = "start" /\ mon'.pc # "start") \/ MonitorStep

\* the lines whose scheduled value a step changes
Changed == {f \in DOMAIN pend : pend'[f] # pend[f]}

DriverLines == {"tvalid", "tdata", "tkeep", "tlast", "tuser"}
ReadyLines  == {"tready"}

\* C19: signal ownership.  VALID, the data lanes, the validity mask, the
\* end marker and the user line change only in a step of the driver, READY
\* only in a step of the ready controller; a step of the driver changes none
\* but its own lines, a step of the controller none but READY, a step of
\* the monitor none at all; and the lines themselves change only at a clock
\* edge, to the values scheduled.
C19_SignalOwnership ==
    [][/\ Changed \cap DriverLines # {} => DriverStep
       /\ Changed \cap ReadyLines # {} => ResponderStep
       /\ DriverStep => Changed \subseteq DriverLines
       /\ ResponderStep => Changed \subseteq ReadyLines
       /\ MonitorAnyStep => Changed = {}
       /\ sig' # sig => (sig' = pend /\ Changed = {})]_vars

\* driver and controller have both written in the same tick, the monitor
\* running beside them: VALID, the data lanes and READY are all scheduled to
\* change at the next edge
C19_Witness ==
    /\ mon.pc = "wait" /\ drv.pc = "beat" /\ rsp.pc = "active"
    /\ obs.ticks >= 1
    /\ pend.tvalid # sig.tvalid /\ pend.tready # sig.tready
    /\ pend.tdata # sig.tdata

-----------------------------------------------------------------------------
(* Packet (src/packet.py) and Comparator (src/scoreboard.py) *)

MaxPort == 2        \* packets in a port of the comparator
MaxData == 2        \* bytes in the data of a packet of the scoreboard

ScoreBytes == {0, 1}

\* Packet.__init__ (pkt_size is None until the packet is generated)
NewPacket == [pkt_size |-> 0, data |-> <<>>]

\* Packet.generate(pkt_size = n) with the bytes gen_data draws: pkt_size is
\* set, the bytes are appended to self.data
generate(pkt, n, bytes) == [pkt_size |-> n, data |-> pkt.data \o bytes]

\* the bytes gen_data draws for a packet of n bytes
Drawn(n) == [1..n -> ScoreBytes]

\* the packets a test gets from Packet(name) by one call of generate or by
\* two, with at most MaxData bytes of data in all
GeneratedPackets ==
    LET first == UNION {{generate(NewPacket, n, b) : b \in Drawn(n)} :
                          n \in 0..MaxData}
        again(p) == UNION {{generate(p, n, b) : b \in Drawn(n)} :
                             n \in 0..(MaxData - Len(p.data))}
    IN  first \cup UNION {again(p) : p \in first}

\* Packet.compare that looks at the sizes only
pkt_compare_sizes_only(self, comp_pkt) ==
    IF self.pkt_size # comp_pkt.pkt_size THEN "1" ELSE "None"

\* Packet.compare: what it returns ("1" or "None"), or the exception raised
\* by comp_pkt.data[indx] in its loop over range(len(self.data))
pkt_compare(self, comp_pkt) ==
    IF self.pkt_size # comp_pkt.pkt_size THEN "1"
    ELSE IF self.data # comp_pkt.data
         THEN IF Len(self.data) > Len(comp_pkt.data) THEN "IndexError" ELSE "1"
    ELSE "None"

\* Comparator.compare: "pass", or the exception that leaves it
compare(port_prd, port_out) ==
    IF Len(port_prd) # Len(port_out) THEN "AssertionError"
    ELSE LET bad == {i \in 1..Len(port_prd) :
                        pkt_compare(port_out[i], port_prd[i]) # "None"}
         IN  IF bad = {} THEN "pass"
             ELSE LET indx == CHOOSE i \in bad : \A j \in bad : i <= j
                  IN  IF pkt_compare(port_out[indx], port_prd[indx]) = "IndexError"
                      THEN "IndexError"
                      ELSE "AssertionError"

\* ScoreSpec: a test generates packets, appends them to the ports of a
\* comparator and calls compare
SbInit == [pc |-> "build", port_prd |-> <<>>, port_out |-> <<>>,
           result |-> "none"]

InitScore ==
    /\ SysInit(Config(CHOOSE d \in PlainData : TRUE, PlainFlow, 1))
    /\ wb = SbInit

\* a packet is generated and appended to port_prd
ScorePredicted ==
    /\ wb.pc = "build" /\ Len(wb.port_prd) < MaxPort
    /\ \E p \in GeneratedPackets :
         wb' = [wb EXCEPT !.port_prd = Append(wb.port_prd, p)]
    /\ UNCHANGED sys_vars

\* a packet is generated and appended to port_out
ScoreObserved ==
    /\ wb.pc = "build" /\ Len(wb.port_out) < MaxPort
    /\ \E p \in GeneratedPackets :
         wb' = [wb EXCEPT !.port_out = Append(wb.port_out, p)]
    /\ UNCHANGED sys_vars

\* comparator.compare()
ScoreCompare ==
    /\ wb.pc = "build"
    /\ wb' = [wb EXCEPT !.pc = "compared",
                        !.result = compare(wb.port_prd, wb.port_out)]
    /\ UNCHANGED sys_vars

NextScore == ScorePredicted \/ ScoreObserved \/ ScoreCompare

ScoreSpec == InitScore /\ [][NextScore]_vars

\* C20: ordered comparison.  compare succeeds when port_prd and port_out
\* have the same length and at every index the two packets have equal size
\* and equal data, and in every other case it fails with an assertion
\* failure.
C20_OrderedCompare ==
    wb.pc = "compared" =>
        wb.result =
            IF /\ Len(wb.port_prd) = Len(wb.port_out)
               /\ \A i \in 1..Len(wb.port_prd) :
                    /\ wb.port_out[i].pkt_size = wb.port_prd[i].pkt_size
                    /\ wb.port_out[i].data = wb.port_prd[i].data
            THEN "pass"
            ELSE "AssertionError"

-----------------------------------------------------------------------------
(* C21..C30 *)
(* Comparator.compare_out_of_order (src/scoreboard.py) *)

\* symbols of a Packet of width 61 (gen_data draws from 0 .. 2^61 - 1), as
\* bit sets: 0, 1 and 2^61 - 1
WideSymbols == {{}, {0}, 0..60}

\* hash(x) of a Python int x in 0 .. 2^61 - 1: x modulo 2^61 - 1
hash_int(x) == IF x = 0..60 THEN {} ELSE x

\* hash(tuple(pkt.data)): computed from the hashes of the elements, in
\* order.  The mixing of the element hashes is not computed: two tuples get
\* the same hash here only when their elements hash alike one by one.
data_hash(data) == [i \in 1..Len(data) |-> hash_int(data[i])]

\* prd_hash_tbl[h] after the first loop: the last packet of port_prd whose
\* data hashes to h (index 0 when h is not a key)
hash_tbl_index(port_prd, h) ==
    LET keys == {i \in 1..Len(port_prd) : data_hash(port_prd[i].data) = h}
    IN  IF keys = {} THEN 0 ELSE CHOOSE i \in keys : \A j \in keys : j <= i

\* the second loop's body for one packet of port_out: "ok", or the exception
\* it ends in.  Without a key the message of the assert is evaluated first,
\* and pkt.name() calls the name, a str.
out_of_order_step(port_prd, pkt) ==
    LET k == hash_tbl_index(port_prd, data_hash(pkt.data))
    IN  IF k = 0 THEN "TypeError"
        ELSE LET r == pkt_compare(pkt, port_prd[k])
             IN  IF r = "None" THEN "ok"
                 ELSE IF r = "IndexError" THEN "IndexError"
                 ELSE "AssertionError"

\* Comparator.compare_out_of_order: "pass", or the exception that leaves it
compare_out_of_order(port_prd, port_out) ==
    LET bad == {i \in 1..Len(port_out) :
                    out_of_order_step(port_prd, port_out[i]) # "ok"}
    IN  IF bad = {} THEN "pass"
        ELSE out_of_order_step(port_prd,
                 port_out[CHOOSE i \in bad : \A j \in bad : i <= j])

\* the packets of width 61 a test gets from one call of generate, with at
\* most one symbol
WidePackets ==
    UNION {{generate(NewPacket, n, b) : b \in [1..n -> WideSymbols]} :
             n \in 0..1}

\* UnorderedSpec: a test generates packets, appends them to the ports of a
\* comparator and calls compare_out_of_order
InitUnordered ==
    /\ SysInit(Config(CHOOSE d \in PlainData : TRUE, PlainFlow, 1))
    /\ wb = SbInit

UnorderedPredicted ==
    /\ wb.pc = "build" /\ Len(wb.port_prd) < MaxPort
    /\ \E p \in WidePackets :
         wb' = [wb EXCEPT !.port_prd = Append(wb.port_prd, p)]
    /\ UNCHANGED sys_vars

UnorderedObserved ==
    /\ wb.pc = "build" /\ Len(wb.port_out) < MaxPort
    /\ \E p \in WidePackets :
         wb' = [wb EXCEPT !.port_out = Append(wb.port_out, p)]
    /\ UNCHANGED sys_vars

\* comparator.compare_out_of_order()
UnorderedCompare ==
    /\ wb.pc = "build"
    /\ wb' = [wb EXCEPT !.pc = "compared",
                        !.result = compare_out_of_order(wb.port_prd, wb.port_out)]
    /\ UNCHANGED sys_vars

NextUnordered == UnorderedPredicted \/ UnorderedObserved \/ UnorderedCompare

UnorderedSpec == InitUnordered /\ [][NextUnordered]_vars

\* the packets of port a have pairwise distinct data
DistinctContent(a) ==
    \A i, j \in 1..Len(a) : i # j => a[i].data # a[j].data

\* b holds the packets of a, each as often as a does, in any order
IsPermutation(a, b) ==
    /\ Len(a) = Len(b)
    /\ \E f \in [1..Len(a) -> 1..Len(a)] :
         /\ \A i, j \in 1..Len(a) : i # j => f[i] # f[j]
         /\ \A i \in 1..Len(a) : b[i] = a[f[i]]

\* C21: unordered comparison tolerates permutation.  When the expected
\* packets have pairwise distinct content and the observed list is a
\* permutation of the expected list, compare_out_of_order succeeds.
C21_PermutationTolerated ==
    (wb.pc = "compared" /\ DistinctContent(wb.port_prd)
       /\ IsPermutation(wb.port_prd, wb.port_out))
    => wb.result = "pass"

\* C22: missing prediction.  When the content of an observed packet matches
\* no expected packet, compare_out_of_order ends in an assertion failure and
\* in no other kind of error.
C22_MissingPrediction ==
    (wb.pc = "compared"
       /\ \E i \in 1..Len(wb.port_out) :
            \A j \in 1..Len(wb.port_prd) :
               wb.port_out[i].data # wb.port_prd[j].data)
    => wb.result = "AssertionError"

\* C23: unordered comparison verifies equality of the two streams.
\* compare_out_of_order succeeds only if the observed list is a permutation
\* of the expected list.
C23_OnlyPermutations ==
    (wb.pc = "compared" /\ wb.result = "pass")
    => IsPermutation(wb.port_prd, wb.port_out)

-----------------------------------------------------------------------------
(* Packet: src/packet.py, its copy src/build/lib/coco_env/packet.py with    *)
(* another generate, and src/coco_env/packet.py (words_to_bytes)            *)

MaxCalls == 2       \* calls of predict in PredictSpec
MaxRef   == 2       \* length of the lists handed to write_data, and sizes generated
MaxSymbWidth == 2   \* symb_width of the packets of PacketSpec

\* Python values of more than one type: None, an int, a str
PyNone   == [none |-> TRUE]
PyInt(n) == [int |-> n]
PyStr(s) == [str |-> s]
IsInt(v) == DOMAIN v = {"int"}
IsStr(v) == DOMAIN v = {"str"}

\* the three Packet classes
PacketClasses == {"src/packet.py", "build/lib", "coco_env"}

\* Packet.__init__: pkt_size and delay are None in src/packet.py and its
\* copy, 0 in src/coco_env/packet.py.  The packets here are made with
\* width = 1 and symb_width = MaxSymbWidth.
Packet_init(cls) ==
    [cls |-> cls, data |-> <<>>,
     pkt_size |-> IF cls = "coco_env" THEN PyInt(0) ELSE PyNone,
     delay    |-> IF cls = "coco_env" THEN PyInt(0) ELSE PyNone,
     width |-> 1, symb_width |-> MaxSymbWidth]

\* the outcome of a call: the packet as the call leaves it, and "ok" or the
\* name of the exception that ends the call
Outcome(pkt, exc) == [pkt |-> pkt, exc |-> exc]

\* Packet.gen_delay of src/packet.py: the packets it can leave
gen_delay(pkt, delay_type, delay) ==
    IF delay # PyNone THEN {[pkt EXCEPT !.delay = delay]}
    ELSE LET range == CASE delay_type = "no_delay" -> 0..0
                        [] delay_type = "short"    -> 1..5
                        [] delay_type = "medium"   -> 5..50
                        [] delay_type = "long"     -> 50..250
                        [] OTHER                   -> 500..1000
         IN  {[pkt EXCEPT !.delay = PyInt(d)] : d \in range}

\* Packet.write_data of src/packet.py
write_data(pkt, ref_data, delay, delay_type) ==
    {Outcome(p, "ok") :
       p \in gen_delay([pkt EXCEPT !.data = ref_data,
                                   !.pkt_size = PyInt(Len(ref_data))],
                       delay_type, delay)}

\* Packet.gen_pkt_size of src/packet.py: the packets it can leave, each with
\* "ok" or the exception raised
gen_pkt_size(pkt, pkt_size, pkt_size_type) ==
    IF pkt_size # PyNone THEN {Outcome([pkt EXCEPT !.pkt_size = pkt_size], "ok")}
    ELSE LET types == IF pkt_size_type = "random"
                      THEN {"small", "medium", "long"}
                      ELSE {pkt_size_type}
             range(t) == CASE t = "one_word" -> 1..10
                           [] t = "small"    -> 10..100
                           [] t = "medium"   -> 100..500
                           [] t = "long"     -> 500..1500
                           [] OTHER          -> {}
         IN  UNION {IF range(t) = {} THEN {Outcome(pkt, "ValueError")}
                    ELSE {Outcome([pkt EXCEPT !.pkt_size = PyInt(n)], "ok") :
                            n \in range(t)} :
                      t \in types}

\* Packet.gen_data (the same in the copy under build/lib): pkt_size bytes
\* are appended to data; math.ceil(self.pkt_size / self.format_width)
\* raises TypeError when pkt_size is not a number
gen_data(pkt, pattern) ==
    IF ~IsInt(pkt.pkt_size) THEN {Outcome(pkt, "TypeError")}
    ELSE LET n == IF pkt.pkt_size.int < 0 THEN 0 ELSE pkt.pkt_size.int
         IN  IF pattern = "increment"
             THEN {Outcome([pkt EXCEPT !.data = @ \o
                       [indx \in 1..n |-> (indx - 1) % (Pow2(pkt.width) - 1)]],
                     "ok")}
             ELSE {Outcome([pkt EXCEPT !.data = @ \o b], "ok") :
                     b \in [1..n -> 0..(Pow2(pkt.width) - 1)]}

\* Packet.generate of src/packet.py: gen_pkt_size, gen_delay, gen_data
Packet_generate(pkt, pkt_size, pkt_size_type, pattern, delay, delay_type) ==
    UNION {IF s.exc # "ok" THEN {s}
           ELSE UNION {gen_data(d, pattern) :
                         d \in gen_delay(s.pkt, delay_type, delay)} :
             s \in gen_pkt_size(pkt, pkt_size, pkt_size_type)}

\* A str is held as the list of its characters, so that isdigit, int and
\* lower are computed from the characters.

\* str.isdigit for ASCII text
isdigit(s) ==
    /\ s # <<>>
    /\ \A i \in 1..Len(s) :
         s[i] \in {"0", "1", "2", "3", "4", "5", "6", "7", "8", "9"}

RECURSIVE py_int(_)
\* int(s) of a str of decimal digits
py_int(s) ==
    LET value == ("0" :> 0) @@ ("1" :> 1) @@ ("2" :> 2) @@ ("3" :> 3)
                 @@ ("4" :> 4) @@ ("5" :> 5) @@ ("6" :> 6) @@ ("7" :> 7)
                 @@ ("8" :> 8) @@ ("9" :> 9)
    IN  IF s = <<>> THEN 0
        ELSE 10 * py_int(SubSeq(s, 1, Len(s) - 1)) + value[s[Len(s)]]

\* str.lower for ASCII text
lower(s) ==
    LET low == ("A" :> "a") @@ ("B" :> "b") @@ ("C" :> "c") @@ ("D" :> "d")
                 @@ ("E" :> "e") @@ ("F" :> "f") @@ ("G" :> "g") @@ ("H" :> "h")
                 @@ ("I" :> "i") @@ ("J" :> "j") @@ ("K" :> "k") @@ ("L" :> "l")
                 @@ ("M" :> "m") @@ ("N" :> "n") @@ ("O" :> "o") @@ ("P" :> "p")
                 @@ ("Q" :> "q") @@ ("R" :> "r") @@ ("S" :> "s") @@ ("T" :> "t")
                 @@ ("U" :> "u") @@ ("V" :> "v") @@ ("W" :> "w") @@ ("X" :> "x")
                 @@ ("Y" :> "y") @@ ("Z" :> "z")
    IN  [i \in 1..Len(s) |-> IF s[i] \in DOMAIN low THEN low[s[i]] ELSE s[i]]

\* gen_pkt_size of the copy under build/lib.  pkt_size_ranges is assigned
\* in the else branch of the isdigit test only and read after both branches.
lib_gen_pkt_size(pkt, pkt_size) ==
    LET pkt_size_ranges ==
            {<<<<"r", "a", "n", "d", "o", "m">>, 1..1500>>,
             <<<<"o", "n", "e", "_", "w", "o", "r", "d">>, 1..10>>,
             <<<<"s", "m", "a", "l", "l">>, 10..100>>,
             <<<<"m", "e", "d", "i", "u", "m">>, 100..500>>,
             <<<<"l", "o", "n", "g">>, 500..1500>>}
        pkt_range == {e \in pkt_size_ranges : e[1] = lower(pkt_size.str)}
    IN  IF pkt_size = PyNone
        THEN {Outcome([pkt EXCEPT !.pkt_size = PyInt(n)], "ok") : n \in 1..1500}
        ELSE IF IsInt(pkt_size)
        THEN IF pkt_size.int <= 0 THEN {Outcome(pkt, "ValueError")}
             ELSE {Outcome([pkt EXCEPT !.pkt_size = pkt_size], "ok")}
        ELSE IF IsStr(pkt_size)
        THEN IF isdigit(pkt_size.str)
             THEN {Outcome([pkt EXCEPT !.pkt_size = PyInt(py_int(pkt_size.str))],
                           "UnboundLocalError")}
             ELSE IF pkt_range = {} THEN {Outcome(pkt, "ValueError")}
             ELSE {Outcome([pkt EXCEPT !.pkt_size = PyInt(n)], "ok") :
                     n \in UNION {e[2] : e \in pkt_range}}
        ELSE {Outcome(pkt, "TypeError")}

\* gen_delay of the copy under build/lib
lib_gen_delay(pkt, delay) ==
    LET delay_ranges ==
            {<<<<"r", "a", "n", "d", "o", "m">>, 0..250>>,
             <<<<"n", "o", "_", "d", "e", "l", "a", "y">>, 0..0>>,
             <<<<"s", "h", "o", "r", "t">>, 0..5>>,
             <<<<"m", "e", "d", "i", "u", "m">>, 5..50>>,
             <<<<"l", "o", "n", "g">>, 50..250>>}
        delay_range == {e \in delay_ranges : e[1] = lower(delay.str)}
    IN  IF delay = PyNone
        THEN {Outcome([pkt EXCEPT !.delay = PyInt(n)], "ok") : n \in 0..250}
        ELSE IF IsInt(delay)
        THEN IF delay.int < 0 THEN {Outcome(pkt, "ValueError")}
             ELSE {Outcome([pkt EXCEPT !.delay = delay], "ok")}
        ELSE IF IsStr(delay)
        THEN IF isdigit(delay.str)
             THEN {Outcome([pkt EXCEPT !.delay = PyInt(py_int(delay.str))], "ok")}
             ELSE IF delay_range = {} THEN {Outcome(pkt, "ValueError")}
             ELSE {Outcome([pkt EXCEPT !.delay = PyInt(n)], "ok") :
                     n \in UNION {e[2] : e \in delay_range}}
        ELSE {Outcome(pkt, "TypeError")}

\* Packet.generate of the copy under build/lib: gen_pkt_size, gen_delay,
\* gen_data
lib_generate(pkt, pkt_size, delay, pattern) ==
    UNION {IF s.exc # "ok" THEN {s}
           ELSE UNION {IF d.exc # "ok" THEN {d} ELSE gen_data(d.pkt, pattern) :
                         d \in lib_gen_delay(s.pkt, delay)} :
             s \in lib_gen_pkt_size(pkt, pkt_size)}

\* Packet.write_number(val, width_in_bits) for width_in_bits >= 0: pkt_size
\* and data
write_number(val, width_in_bits) ==
    LET pkt_size == (width_in_bits + 7) \div 8
    IN  [pkt_size |-> pkt_size,
         data     |-> [i \in 1..pkt_size |-> ByteOf(val, i - 1)]]

\* a Python list as a value beside PyNone, PyInt and PyStr
PyList(l) == [list |-> l]
IsList(v) == DOMAIN v = {"list"}

\* a ^ b of two ints below 256
Xor(a, b) ==
    Val((Bits(a, 8) \ Bits(b, 8)) \cup (Bits(b, 8) \ Bits(a, 8)))

\* a sample that may draw an index more than once
sample_with_replacement(n, k) == [1..k -> 0..(n - 1)]

\* random.sample(range(0, n), k) for 0 <= k <= n: the lists of k different
\* indices
sample(n, k) ==
    {l \in [1..k -> 0..(n - 1)] : \A i, j \in 1..k : i # j => l[i] # l[j]}

RECURSIVE corrupt_loop(_, _, _, _, _)
\* the loop of corrupt_pkt from its i-th round on: the packets it can leave,
\* each with "ok" or the exception that ended the loop
corrupt_loop(pkt, positions, errors, pattern, i) ==
    IF i > Len(positions) THEN {Outcome(pkt, "ok")}
    ELSE LET drawn == IF errors # PyNone
                      THEN IF i <= Len(errors.list) THEN {errors.list[i]} ELSE {}
                      ELSE IF pattern = "random"
                      THEN 1..(Pow2(pkt.symb_width) - 1)
                      ELSE IF pattern = "bit_error"
                      THEN {Pow2(bit_position) : bit_position \in 0..7}
                      ELSE {}
             pos   == positions[i]
             indx  == IF pos >= 0 THEN pos + 1 ELSE Len(pkt.data) + pos + 1
         IN  IF drawn = {}
             THEN {Outcome(pkt, IF errors # PyNone THEN "IndexError"
                                ELSE "ValueError")}
             ELSE IF indx \notin 1..Len(pkt.data)
             THEN {Outcome(pkt, "IndexError")}
             ELSE UNION {corrupt_loop(
                             [pkt EXCEPT !.data[indx] = Xor(@, error)],
                             positions, errors, pattern, i + 1) :
                           error \in drawn}

\* Packet.corrupt_pkt (the same body in the copy under build/lib).  The
\* raise of its last branch formats type(variable), a name that is not
\* defined.
corrupt_pkt(pkt, positions, errors, pattern) ==
    IF IsList(positions)
    THEN corrupt_loop(pkt, positions.list, errors, pattern, 1)
    ELSE IF IsInt(positions)
    THEN IF positions.int < 0 \/ positions.int > Len(pkt.data)
         THEN {Outcome(pkt, "ValueError")}
         ELSE UNION {corrupt_loop(pkt, l, errors, pattern, 1) :
                       l \in sample(Len(pkt.data), positions.int)}
    ELSE {Outcome(pkt, "NameError")}

\* the indices Packet.compare prints a warning for
compare_warned(self, comp_pkt) ==
    IF self.pkt_size = comp_pkt.pkt_size /\ self.data # comp_pkt.data
    THEN {indx \in 0..(Len(self.data) - 1) :
            indx < Len(comp_pkt.data)
            /\ self.data[indx + 1] # comp_pkt.data[indx + 1]}
    ELSE {}

\* PacketSpec: a test holds a packet that earlier calls have left, or a new
\* one, and makes one more call on it.  wb.prev is the packet before the
\* call, wb.op and wb.arg the call, wb.exc how it ended.
PbInit(pkt) ==
    [pc |-> "packet", pkt |-> pkt, prev |-> pkt, op |-> "init", arg |-> <<>>,
     exc |-> "ok", cmp |-> <<>>]

\* the packets of src/packet.py a test holds after write_data(ref_data,
\* delay = 0), and after a following generate of no byte or of one
OtherPackets ==
    LET RefData == UNION {[1..n -> ScoreBytes] : n \in 0..MaxRef}
        written == {o.pkt : o \in UNION {write_data(Packet_init("src/packet.py"),
                                              r, PyInt(0), "short") : r \in RefData}}
        again   == {o.pkt : o \in UNION {Packet_generate(p, PyInt(n), "random",
                                              "random", PyInt(0), "short") :
                                            p \in written, n \in 0..1}}
    IN  written \cup again

InitPacket ==
    /\ SysInit(Config(CHOOSE d \in PlainData : TRUE, PlainFlow, 1))
    /\ \E p \in OtherPackets \cup {Packet_init(cls) : cls \in PacketClasses} :
         wb = PbInit(p)

\* the harness after a call op(arg) that ended as out
PbCalled(op, arg, out) ==
    [wb EXCEPT !.pc = "called", !.prev = wb.pkt, !.pkt = out.pkt, !.op = op,
               !.arg = arg, !.exc = out.exc]

\* pkt.write_data(ref_data, delay = 0)
PktWriteData ==
    /\ wb.pc = "packet" /\ wb.pkt.cls = "src/packet.py"
    /\ \E n \in 0..MaxRef : \E ref_data \in [1..n -> ScoreBytes] :
       \E out \in write_data(wb.pkt, ref_data, PyInt(0), "short") :
         wb' = PbCalled("write_data", <<ref_data>>, out)
    /\ UNCHANGED sys_vars

\* pkt.generate(pkt_size, pkt_size_type, pattern, delay, delay_type) of
\* src/packet.py, with a size, a size type, a delay or a delay type
PktGenerate ==
    /\ wb.pc = "packet" /\ wb.pkt.cls = "src/packet.py"
    /\ LET sizes  == {<<s, "random", "random", PyInt(0), "short">> :
                        s \in {PyInt(n) : n \in (-1)..MaxRef}
                              \cup {PyStr(<<"1", "2">>)}}
           types  == {<<PyNone, t, "increment", PyInt(0), "short">> :
                        t \in {"one_word", "small", "bogus"}}
           delays == {<<PyInt(1), "random", "increment", d, "short">> :
                        d \in {PyInt(-1), PyInt(3)}}
           dtypes == {<<PyInt(1), "random", "increment", PyNone, t>> :
                        t \in {"no_delay", "short", "bogus"}}
       IN  \E a \in sizes \cup types \cup delays \cup dtypes :
           \E out \in Packet_generate(wb.pkt, a[1], a[2], a[3], a[4], a[5]) :
             wb' = PbCalled("generate",
                            [size |-> a[1], size_type |-> a[2],
                             delay |-> a[4], delay_type |-> a[5]], out)
    /\ UNCHANGED sys_vars

\* pkt.generate(pkt_size, delay, pattern) of the copy under build/lib, with
\* a size or a delay given as an int or as a str
PktGenerateLib ==
    /\ wb.pc = "packet" /\ wb.pkt.cls = "build/lib"
    /\ LET names  == {<<"1", "2">>, <<"o", "n", "e", "_", "w", "o", "r", "d">>, <<"S", "m", "a", "l", "l">>,
                      <<"b", "o", "g", "u", "s">>, <<"-", "3">>}
           dnames == {<<"3">>, <<"n", "o", "_", "d", "e", "l", "a", "y">>, <<"S", "h", "o", "r", "t">>,
                      <<"b", "o", "g", "u", "s">>}
           sizes  == {<<s, PyInt(0), "random">> : s \in {PyInt(n) : n \in (-1)..MaxRef}}
           strs   == {<<PyStr(t), PyInt(0), "increment">> : t \in names}
           delays == {<<PyInt(1), d, "increment">> :
                        d \in {PyInt(-1), PyInt(3)} \cup {PyStr(t) : t \in dnames}}
       IN  \E a \in sizes \cup strs \cup delays :
           \E out \in lib_generate(wb.pkt, a[1], a[2], a[3]) :
             wb' = PbCalled("generate",
                            [size |-> a[1], size_type |-> "random",
                             delay |-> a[2], delay_type |-> "random"], out)
    /\ UNCHANGED sys_vars

\* the word lists a test hands to the conversions, of the words 0x000, 0x0ff
\* and 0x101
WordLists == UNION {[1..n -> {{}, 0..7, {0, 8}}] : n \in 0..MaxRef}

\* pkt.write_word_list(word_list, pkt_size, word_size); word_list[word_cntr]
\* raises IndexError when the list has too few words, pkt_size being set
\* and the bytes of the words there are being appended by then
PktWriteWordList ==
    /\ wb.pc = "packet" /\ wb.pkt.cls # "coco_env"
    /\ \E word_list \in WordLists, pkt_size \in 0..MaxRef, word_size \in 1..2 :
         LET fits == pkt_size <= Len(word_list) * word_size
             r == write_word_list(word_list,
                      IF fits THEN pkt_size ELSE Len(word_list) * word_size,
                      word_size)
             p == [wb.pkt EXCEPT !.pkt_size = PyInt(pkt_size), !.data = r.data]
         IN  wb' = PbCalled("write_word_list", <<word_list, pkt_size, word_size>>,
                            Outcome(p, IF fits THEN "ok" ELSE "IndexError"))
    /\ UNCHANGED sys_vars

\* pkt.write_number(val, width_in_bits)
PktWriteNumber ==
    /\ wb.pc = "packet" /\ wb.pkt.cls # "coco_env"
    /\ \E val \in {{}, 0..7, {0, 8}}, width_in_bits \in {0, 1, 8, 9, 16} :
         LET r == write_number(val, width_in_bits)
             p == [wb.pkt EXCEPT !.pkt_size = PyInt(r.pkt_size), !.data = r.data]
         IN  wb' = PbCalled("write_number", <<val, width_in_bits>>,
                            Outcome(p, "ok"))
    /\ UNCHANGED sys_vars

\* pkt.words_to_bytes(word_list, total_bytes, width) of src/coco_env/packet.py
PktWordsToBytes ==
    /\ wb.pc = "packet" /\ wb.pkt.cls = "coco_env"
    /\ \E word_list \in WordLists, total_bytes \in 0..MaxRef, width \in 1..2 :
         LET r == words_to_bytes(word_list, total_bytes, width)
             p == [wb.pkt EXCEPT !.pkt_size = PyInt(r.pkt_size), !.data = r.data]
         IN  wb' = PbCalled("words_to_bytes", <<word_list, total_bytes, width>>,
                            Outcome(p, "ok"))
    /\ UNCHANGED sys_vars

\* pkt.corrupt_pkt(positions, errors, pattern) with a count, a list or a str
\* for the positions, on a packet of MaxRef bytes at most
PktCorrupt ==
    /\ wb.pc = "packet" /\ wb.pkt.cls # "coco_env"
    /\ Len(wb.pkt.data) <= MaxRef
    /\ \E positions \in {PyInt(n) : n \in 0..(MaxRef + 1)}
                         \cup {PyList(<<0>>), PyList(<<1, 1>>), PyStr(<<"1">>)},
          errors \in {PyNone, PyList(<<0, 3>>)},
          pattern \in {"random", "bit_error"} :
       \E out \in corrupt_pkt(wb.pkt, positions, errors, pattern) :
         wb' = PbCalled("corrupt_pkt", <<positions, errors, pattern>>, out)
    /\ UNCHANGED sys_vars

\* pkt.compare(q) and q.compare(pkt)
PktCompare ==
    /\ wb.pc = "packet" /\ wb.pkt.cls # "coco_env"
    /\ \E q \in OtherPackets :
         wb' = [wb EXCEPT !.pc = "compared",
                          !.cmp = [q |-> q, fwd |-> pkt_compare(wb.pkt, q),
                                   bwd |-> pkt_compare(q, wb.pkt)]]
    /\ UNCHANGED sys_vars

NextPacket ==
    \/ PktWriteData
    \/ PktGenerate
    \/ PktGenerateLib
    \/ PktWriteWordList
    \/ PktWriteNumber
    \/ PktWordsToBytes
    \/ PktCorrupt
    \/ PktCompare

PacketSpec == InitPacket /\ [][NextPacket]_vars

\* pkt_size == len(data)
SizeIsLen(p) == p.pkt_size = PyInt(Len(p.data))

\* the sizes differ, or some byte differs at the same position
Mismatch(p, q) ==
    \/ p.pkt_size # q.pkt_size
    \/ \E i \in 1..Min(Len(p.data), Len(q.data)) : p.data[i] # q.data[i]

\* C24: packet equality.  For packets p and q with size == len(data),
\* p.compare(q) returns 1 iff the sizes differ or some byte differs at the
\* same position, and returns None otherwise; q.compare(p) gives the same
\* verdict.
C24_PacketEquality ==
    (wb.pc = "compared" /\ SizeIsLen(wb.pkt) /\ SizeIsLen(wb.cmp.q))
    => /\ wb.cmp.fwd = (IF Mismatch(wb.pkt, wb.cmp.q) THEN "1" ELSE "None")
       /\ wb.cmp.bwd = wb.cmp.fwd

\* two packets of two bytes that differ in the second byte only have been
\* compared, and both calls returned 1
C24_Witness ==
    /\ wb.pc = "compared" /\ SizeIsLen(wb.pkt) /\ SizeIsLen(wb.cmp.q)
    /\ Len(wb.pkt.data) = 2 /\ Len(wb.cmp.q.data) = 2
    /\ wb.pkt.data[1] = wb.cmp.q.data[1] /\ wb.pkt.data[2] # wb.cmp.q.data[2]
    /\ wb.cmp.fwd = "1" /\ wb.cmp.bwd = "1"

-----------------------------------------------------------------------------
(* Predictor (src/scoreboard.py) *)

RECURSIVE predict_from(_, _, _)
\* predict that starts its loop at the second packet of port_in
predict_skips_first(port_in, port_prd) ==
    [port_in |-> port_in, port_prd |-> predict_from(port_in, 2, port_prd)]

\* the loop of predict from index i of port_in: one append for each packet
predict_from(port_in, i, port_prd) ==
    IF i > Len(port_in) THEN port_prd
    ELSE predict_from(port_in, i + 1, Append(port_prd, port_in[i]))

\* Predictor.predict: the two lists after the call
predict(port_in, port_prd) ==
    [port_in |-> port_in, port_prd |-> predict_from(port_in, 1, port_prd)]

\* PredictSpec: a test fills port_in and the comparator's port_prd and calls
\* predict, up to MaxCalls times; wb.before holds the lists before the last
\* call of predict
PrInit == [pc |-> "build", port_in |-> <<>>, port_prd |-> <<>>,
           before |-> [port_in |-> <<>>, port_prd |-> <<>>], calls |-> 0]

InitPredict ==
    /\ SysInit(Config(CHOOSE d \in PlainData : TRUE, PlainFlow, 1))
    /\ wb = PrInit

\* a packet is appended to predictor.port_in
PredictIn ==
    /\ wb.calls = 0 /\ Len(wb.port_in) < MaxPort
    /\ \E p \in WidePackets :
         wb' = [wb EXCEPT !.port_in = Append(wb.port_in, p)]
    /\ UNCHANGED sys_vars

\* a packet is appended to port_prd by the test itself
PredictPrd ==
    /\ wb.calls = 0 /\ Len(wb.port_prd) < MaxPort
    /\ \E p \in WidePackets :
         wb' = [wb EXCEPT !.port_prd = Append(wb.port_prd, p)]
    /\ UNCHANGED sys_vars

\* predictor.predict()
Predict ==
    /\ wb.calls < MaxCalls
    /\ LET r == predict(wb.port_in, wb.port_prd)
       IN  wb' = [wb EXCEPT !.pc = "predicted",
                            !.before = [port_in |-> wb.port_in,
                                        port_prd |-> wb.port_prd],
                            !.port_in = r.port_in, !.port_prd = r.port_prd,
                            !.calls = @ + 1]
    /\ UNCHANGED sys_vars

NextPredict == PredictIn \/ PredictPrd \/ Predict

PredictSpec == InitPredict /\ [][NextPredict]_vars

\* C25: the default predictor is an identity passthrough.  One call of
\* predict leaves port_in as it was, keeps the packets port_prd held at
\* their positions and appends the packets of port_in after them, each once,
\* in the order of port_in and unmodified.
C25_IdentityPassthrough ==
    wb.pc = "predicted" =>
        LET n == Len(wb.before.port_prd)
        IN  /\ wb.port_in = wb.before.port_in
            /\ Len(wb.port_prd) = n + Len(wb.port_in)
            /\ \A i \in 1..n : wb.port_prd[i] = wb.before.port_prd[i]
            /\ \A k \in 1..Len(wb.port_in) : wb.port_prd[n + k] = wb.port_in[k]

\* predict has been called once with two different packets in port_in and a
\* third already in port_prd
C25_Witness ==
    /\ wb.pc = "predicted" /\ wb.calls = 1
    /\ Len(wb.before.port_prd) = 1 /\ Len(wb.port_in) = 2
    /\ wb.port_in[1] # wb.port_in[2]
    /\ wb.before.port_prd[1] # wb.port_in[1]
    /\ wb.before.port_prd[1] # wb.port_in[2]
    /\ Len(wb.port_prd) = 3

\* the positions at which two lists of one length differ
Changed2(a, b) == {i \in 1..Len(a) : a[i] # b[i]}

\* C26: corruption.  corrupt_pkt(n) with a count 0 <= n <= size, no errors
\* given and the random or the bit_error pattern returns, changes exactly n
\* positions of the data and leaves the other bytes and the size as they
\* were; for n = 1, comparing with the packet as it was before finds exactly
\* one mismatching index.
C26_Corruption ==
    (/\ wb.op = "corrupt_pkt" /\ IsInt(wb.arg[1]) /\ wb.arg[2] = PyNone
     /\ wb.arg[3] \in {"random", "bit_error"}
     /\ IsInt(wb.prev.pkt_size)
     /\ 0 <= wb.arg[1].int /\ wb.arg[1].int <= wb.prev.pkt_size.int)
    => /\ wb.exc = "ok"
       /\ Len(wb.pkt.data) = Len(wb.prev.data)
       /\ Cardinality(Changed2(wb.pkt.data, wb.prev.data)) = wb.arg[1].int
       /\ wb.pkt.pkt_size = wb.prev.pkt_size
       /\ (wb.arg[1].int = 1 =>
              /\ pkt_compare(wb.pkt, wb.prev) = "1"
              /\ Cardinality(compare_warned(wb.pkt, wb.prev)) = 1
              /\ Cardinality(compare_warned(wb.prev, wb.pkt)) = 1)

\* corrupt_pkt(2) has changed both bytes of a packet of two bytes, and
\* corrupt_pkt(1) one byte of such a packet
C26_Witness ==
    /\ wb.op = "corrupt_pkt" /\ wb.arg[1] = PyInt(2) /\ wb.arg[2] = PyNone
    /\ wb.prev.pkt_size = PyInt(2) /\ wb.exc = "ok"
    /\ Changed2(wb.pkt.data, wb.prev.data) = {1, 2}

\* C27: corruption argument check.  corrupt_pkt called with a position
\* argument that is neither an int nor a list fails with a type or argument
\* error (TypeError, ValueError) and leaves the data unchanged.
C27_CorruptArgument ==
    (wb.op = "corrupt_pkt" /\ ~IsInt(wb.arg[1]) /\ ~IsList(wb.arg[1]))
    => /\ wb.exc \in {"TypeError", "ValueError"}
       /\ wb.pkt.data = wb.prev.data

\* the name that a str spells, "" when it spells none of the names of a size
\* class or of a delay class
Spelled(s) ==
    CASE s = <<"r", "a", "n", "d", "o", "m">> -> "random"
      [] s = <<"o", "n", "e", "_", "w", "o", "r", "d">> -> "one_word"
      [] s = <<"s", "m", "a", "l", "l">> -> "small"
      [] s = <<"m", "e", "d", "i", "u", "m">> -> "medium"
      [] s = <<"l", "o", "n", "g">> -> "long"
      [] s = <<"n", "o", "_", "d", "e", "l", "a", "y">> -> "no_delay"
      [] s = <<"s", "h", "o", "r", "t">> -> "short"
      [] OTHER -> ""

\* the sizes a call of generate asks for: the int given when it is 1 or
\* more, the int a str of digits spells, the range of the class named, and
\* none for any other argument
SizesAsked(a) ==
    LET class(name) == CASE name = "one_word" -> 1..10
                         [] name = "small"    -> 10..100
                         [] name = "medium"   -> 100..500
                         [] name = "long"     -> 500..1500
                         [] name = "random"   -> 1..1500
                         [] OTHER             -> {}
    IN  IF IsInt(a.size) THEN {n \in {a.size.int} : n >= 1}
        ELSE IF IsStr(a.size)
        THEN IF isdigit(a.size.str) THEN {py_int(a.size.str)}
             ELSE class(Spelled(lower(a.size.str)))
        ELSE class(a.size_type)

\* the delay classes
DelayNames == {"random", "no_delay", "short", "medium", "long"}

\* the delay of a call of generate is a symbolic specifier that is not the
\* name of a delay class
DelayUnrecognised(a) ==
    \/ IsStr(a.delay) /\ ~isdigit(a.delay.str)
          /\ Spelled(lower(a.delay.str)) \notin DelayNames
    \/ a.delay = PyNone /\ a.delay_type \notin DelayNames

\* C28: generate argument check.  generate called with a size that is a
\* negative int, zero or an unrecognised symbolic specifier, or with an
\* unrecognised symbolic delay specifier, ends with an invalid-argument
\* error (ValueError, TypeError) and appends no data.
C28_GenerateArgument ==
    (/\ wb.op = "generate"
     /\ (SizesAsked(wb.arg) = {} \/ DelayUnrecognised(wb.arg)))
    => /\ wb.exc \in {"ValueError", "TypeError"}
       /\ wb.pkt.data = wb.prev.data

\* C29: generate with explicit values.  generate called with a size that is
\* an int of 1 or more, a str of decimal digits or the name of a size class,
\* and with a delay that is an int of 0 or more, a str of decimal digits or
\* the name of a delay class, returns; pkt_size is exactly the int given or
\* spelled, or lies in the range of the class named, and delay is exactly
\* the int given or spelled.
C29_GenerateExplicit ==
    (/\ wb.op = "generate"
     /\ SizesAsked(wb.arg) # {}
     /\ ~DelayUnrecognised(wb.arg)
     /\ (IsInt(wb.arg.delay) => wb.arg.delay.int >= 0))
    => /\ wb.exc = "ok"
       /\ IsInt(wb.pkt.pkt_size)
       /\ wb.pkt.pkt_size.int \in SizesAsked(wb.arg)
       /\ (IsInt(wb.arg.delay) => wb.pkt.delay = wb.arg.delay)
       /\ (IsStr(wb.arg.delay) /\ isdigit(wb.arg.delay.str)
             => wb.pkt.delay = PyInt(py_int(wb.arg.delay.str)))

\* C30: packet size invariant.  A call of generate (with a size it is to
\* accept), write_data, write_word_list, write_number or words_to_bytes that
\* returns, made on a new packet or on one with pkt_size == len(data), and
\* a call of corrupt_pkt that returns, made on a packet with
\* pkt_size == len(data), leave pkt_size == len(data); so it holds after any
\* sequence of such calls.
C30_SizeInvariant ==
    (/\ wb.pc = "called" /\ wb.exc = "ok"
     /\ (wb.op = "generate" => SizesAsked(wb.arg) # {})
     /\ \/ SizeIsLen(wb.prev)
        \/ /\ wb.prev \in {Packet_init(cls) : cls \in PacketClasses}
           /\ wb.op # "corrupt_pkt")
    => SizeIsLen(wb.pkt)

-----------------------------------------------------------------------------
(* C31..C39 *)
(* Construction under any configuration (src/coco_env/rv_base.py,
   src/coco_env/axis_vip.py) *)

\* AxisDriver.__init__ and AxisResponder.__init__, ReadyValidDriverBase and
\* ReadyValidResponderBase alike: the configuration is stored as it is given
\* and none of its fields is read.  The outcome of the constructors.
Component_init(c) == [config |-> c, exc |-> "ok"]

\* the flow configurations a test can hand to the constructors: RANDOM VALID
\* limits of 0 and backpressure_min_delay above backpressure_max_delay
\* included; the other modes with the limits of the dataclass defaults.
\* The driver and the responder read disjoint fields, so the limits of the
\* one are varied under ALWAYS_ON of the other.
AnyFlowConfigs ==
    {f \in [mode       : FlowModes,
            low        : 0..1,
            high       : 0..1,
            has_tready : {TRUE},
            rsp_mode   : {"ALWAYS_ON", "RANDOM"},
            bp_min     : 1..MaxBp,
            bp_max     : 1..MaxBp] :
        /\ (f.mode # "RANDOM" => f.low = 0 /\ f.high = 1)
        /\ (f.rsp_mode # "RANDOM" => f.bp_min = 1 /\ f.bp_max = 1)
        /\ (f.mode = "ALWAYS_ON" \/ f.rsp_mode = "ALWAYS_ON")}

\* the driver, the monitor and the responder constructed under any flow
\* configuration; wb.exc is how the constructors ended
InitConfig ==
    \E d \in PlainData, f \in AnyFlowConfigs :
      LET made == Component_init(Config(d, f, 1)) IN
      /\ SysInit(made.config)
      /\ wb = [pc |-> "constructed", exc |-> made.exc]

ConfigSpec == InitConfig /\ [][Next]_vars

\* the limits of a configuration give an empty draw range
EmptyRange(c) ==
    \/ c.bp_min > c.bp_max
    \/ c.mode = "RANDOM" /\ (c.low < 1 \/ c.high < 1)

\* C31: configuration errors fail fast.  Under a configuration whose limits
\* give an empty draw range the constructors end with an error, and neither
\* send_pkt nor the loop of the ready controller is ever ended by the error
\* of a draw.
C31_FailFast ==
    EmptyRange(cfg) =>
        /\ wb.exc = "ValueError"
        /\ drv.pc # "raised"
        /\ rsp.pc # "raised"

-----------------------------------------------------------------------------
(* An interface without a tlast or without a tkeep line
   (src/coco_env/axis_vip.py) *)

\* the driver, the monitor of the base class and the responder on an
\* interface that lacks tlast, tkeep or both
InitHook ==
    /\ \E d \in PlainData, f \in {PlainFlow, MixedFlow}, l \in BOOLEAN, k \in BOOLEAN :
         /\ ~(l /\ k)
         /\ SysInit([Config(d, f, 1) EXCEPT !.has_tlast = l, !.has_tkeep = k])
    /\ wb = WbIdle

HookSpec == InitHook /\ [][Next]_vars

\* C32: missing end-of-packet or validity hook.  On an interface without a
\* tlast line, or without a tkeep line, the pass of mon_if that finds the
\* first completed handshake ends with ValueError, a pass that finds none
\* goes on waiting, and nothing is ever appended to the observation list.
C32_MissingHook ==
    /\ [](~(cfg.has_tlast /\ cfg.has_tkeep) => aport = <<>>)
    /\ [][(MonitorStep /\ ~(cfg.has_tlast /\ cfg.has_tkeep)) =>
            mon'.pc = (IF mon_completed(cfg, sig) THEN "raised" ELSE "wait")]_vars

\* the monitor of an interface with tkeep and without tlast has buffered the
\* first beat of a packet of several beats and has ended with the error
C32_Witness ==
    /\ ~cfg.has_tlast /\ cfg.has_tkeep
    /\ mon.pc = "raised" /\ Len(mon.data) = 1 /\ aport = <<>>
    /\ sent # <<>> /\ LastSent.pkt_size > cfg.W

-----------------------------------------------------------------------------
(* watchdog_set (src/coco_env/tb_utils.py) *)

MaxWatch == 4       \* the limit handed to watchdog_set is in 1..MaxWatch

\* the test of the while loop of watchdog_set: wait for an edge while the
\* ports of the comparator differ in length, return when they do not
watchdog_test(w) ==
    IF Len(w.port_prd) # Len(w.port_out) THEN [w EXCEPT !.pc = "wait"]
    ELSE [w EXCEPT !.pc = "done"]

\* a watchdog that gives up one tick after the limit
watchdog_resume_late(w) ==
    LET w1 == [w EXCEPT !.watchdog = @ + 1]
    IN  IF w1.watchdog = w.limit + 1 THEN [w1 EXCEPT !.pc = "done"]
        ELSE [w1 EXCEPT !.pc = "wait"]

\* watchdog_set resumed by an edge: watchdog += 1, the break at the limit,
\* and the test of the loop again
watchdog_resume(w) ==
    LET w1 == [w EXCEPT !.watchdog = @ + 1]
    IN  IF w1.watchdog = w.limit THEN [w1 EXCEPT !.pc = "done"]
        ELSE watchdog_test(w1)

\* a comparator with empty ports and a watchdog not started yet; ticks
\* counts the edges the watchdog has waited for
InitWatchdog ==
    /\ SysInit(Config(CHOOSE d \in PlainData : TRUE, PlainFlow, 1))
    /\ \E limit \in 1..MaxWatch :
         wb = [pc |-> "start", watchdog |-> 0, limit |-> limit, ticks |-> 0,
               port_prd |-> <<>>, port_out |-> <<>>]

\* the test starts watchdog_set(clk, comp, limit): it runs to its first
\* await, or returns
WdStart ==
    /\ wb.pc = "start"
    /\ wb' = watchdog_test(wb)
    /\ UNCHANGED sys_vars

\* a predictor appends a packet to comp.port_prd, or a monitor one to
\* comp.port_out
WdPorts ==
    /\ \/ /\ Len(wb.port_prd) < MaxPort
          /\ wb' = [wb EXCEPT !.port_prd = Append(@, NewPacket)]
       \/ /\ Len(wb.port_out) < MaxPort
          /\ wb' = [wb EXCEPT !.port_out = Append(@, NewPacket)]
    /\ UNCHANGED sys_vars

\* a rising edge of clk resumes the waiting watchdog
WdTick ==
    /\ wb.pc = "wait"
    /\ wb' = [watchdog_resume(wb) EXCEPT !.ticks = @ + 1]
    /\ UNCHANGED sys_vars

NextWatchdog == WdStart \/ WdPorts \/ WdTick

WatchdogSpec == InitWatchdog /\ [][NextWatchdog]_vars

\* C33: watchdog.  watchdog_set returns at once, without waiting for an
\* edge, when the ports have one length as it starts; resumed by an edge it
\* returns when the ports have one length or when that edge is the
\* limit-th, and waits on otherwise; so it never waits for more than limit
\* edges, and it has waited for exactly limit edges when it returns with the
\* ports still different.
C33_Watchdog ==
    /\ [](wb.pc = "wait" => wb.ticks < wb.limit)
    /\ [](wb.ticks <= wb.limit)
    /\ [][WdStart =>
            /\ wb'.ticks = 0
            /\ wb'.pc = (IF Len(wb.port_prd) = Len(wb.port_out)
                         THEN "done" ELSE "wait")]_vars
    /\ [][WdTick =>
            /\ wb'.pc = (IF \/ Len(wb.port_prd) = Len(wb.port_out)
                            \/ wb.ticks + 1 = wb.limit
                         THEN "done" ELSE "wait")]_vars

\* the watchdog has returned after limit edges, the limit being 2 or more,
\* with one packet predicted and none observed
C33_Witness ==
    /\ wb.pc = "done" /\ wb.limit >= 2 /\ wb.ticks = wb.limit
    /\ Len(wb.port_prd) = 1 /\ wb.port_out = <<>>

-----------------------------------------------------------------------------
(* Spec again: VALID from edge to edge *)

\* C34: VALID stability.  In every flow-control mode, an edge that shows
\* VALID asserted and no handshake is followed by an edge that shows VALID
\* asserted: the driver never takes a stalled beat back.
C34_ValidStability ==
    [][Tick => ((sig.tvalid = 1 /\ ~Handshake(cfg, sig)) => sig'.tvalid = 1)]_vars

\* under RANDOM VALID and random backpressure, a beat after the first one of
\* a send is stalled by READY and VALID is written 1 again
C34_Witness ==
    /\ cfg.mode = "RANDOM" /\ cfg.has_tready
    /\ drv.pc = "beat" /\ runnable = {} /\ obs.hs >= 1
    /\ sig.tvalid = 1 /\ sig.tready = 0 /\ pend.tvalid = 1

-----------------------------------------------------------------------------
(* Spec under fair scheduling: the simulator goes on producing edges and
   resumes every coroutine that waits for one *)

\* a test bench of a driver and a ready controller, no monitor started: one
\* send under each mode of VALID, with the limits of RANDOM at MaxLimit, and
\* with READY not bound, held by an ALWAYS_ON ready controller, or driven by
\* a RANDOM one with backpressure of 1..MaxBp ticks
InitLive ==
    /\ \E d \in PlainData, f \in FlowConfigs :
         /\ f.mode = "RANDOM" => f.low = MaxLimit /\ f.high = MaxLimit
         /\ f.rsp_mode \in {"ALWAYS_ON", "RANDOM"}
         /\ f.rsp_mode = "RANDOM" => f.bp_min = 1 /\ f.bp_max = MaxBp
         /\ cfg = Config(d, f, 1)
         /\ sig = IdleSig(cfg)
         /\ pend = IdleSig(cfg)
    /\ runnable = {}
    /\ drv = [pc |-> "idle", pkt |-> NoPkt, left |-> 0, word_num |-> 0,
              num_words |-> 0, tnx |-> FALSE, tvalid_delay |-> 0]
    /\ mon = [pc |-> "off", data |-> <<>>, pkt_size |-> 0, pkt_cntr |-> 0,
              last |-> [mask |-> {}, count |-> 0, tlast |-> 0, seen |-> FALSE]]
    /\ aport = <<>>
    /\ rsp = [pc |-> "start", left |-> 0]
    /\ sent = <<>>
    /\ obs = [ticks |-> 0, hs |-> 0, allhs |-> TRUE, rdy |-> TRUE,
              gap |-> 0, last_gap |-> 0, wire |-> <<>>,
              track |-> FALSE, rval |-> 0, rlen |-> 0,
              rdone |-> [val |-> 0, len |-> 0]]
    /\ wb = WbIdle

\* a coroutine that waits for an edge is resumed
ResumeLive ==
    \/ DriverDelay
    \/ DriverBeat
    \/ ResponderStart
    \/ ResponderOn
    \/ ResponderActive
    \/ ResponderBackpressure

NextLive ==
    \/ StartSend
    \/ ResumeLive
    \/ Tick

LiveSpec ==
    InitLive /\ [][NextLive]_vars /\ WF_vars(Tick) /\ WF_vars(ResumeLive)

\* C35: send liveness.  With the limits of RANDOM at 1 or more, READY not
\* bound or driven by a ready controller in ALWAYS_ON or RANDOM, and fair
\* ticking, a send_pkt that was called returns, in each mode of VALID; and
\* it returns only on the resumption that finds the handshake of its last
\* beat.
C35_SendLiveness ==
    /\ (drv.pc \in {"delay", "beat"}) ~> (drv.pc = "idle")
    /\ [][(DriverBeatStep /\ drv'.pc = "idle") =>
            /\ Handshake(cfg, sig)
            /\ drv.word_num = drv.num_words - 1]_vars

\* a send of several beats under RANDOM VALID and random backpressure has
\* been stalled by READY and has returned
C35_Witness ==
    /\ Returned /\ cfg.mode = "RANDOM" /\ cfg.rsp_mode = "RANDOM"
    /\ ~obs.rdy /\ BeatsOf(LastSent) >= 2

-----------------------------------------------------------------------------
(* Spec again: the gaps of VALID under RANDOM *)

\* the longest gap and the largest countdown the limits of c allow
GapMax(c)   == IF c.high >= c.low + 1 THEN c.high ELSE c.low + 1
DelayMax(c) == IF c.low >= c.high THEN c.low ELSE c.high

\* C36: gaps of VALID under RANDOM.  With both limits at 1 or more: on the
\* tick after a completed handshake of a send in progress VALID is 0; the
\* ticks with VALID deasserted between two consecutive handshakes of one
\* send number at least 1 and at most max(tvalid_high_limit,
\* tvalid_low_limit + 1); and tvalid_delay stays within
\* 0..max(tvalid_low_limit, tvalid_high_limit).
C36_RandomGap ==
    (cfg.mode = "RANDOM" /\ cfg.low >= 1 /\ cfg.high >= 1) =>
        /\ (drv.pc = "beat" /\ "drv" \notin runnable
               /\ obs.ticks >= 1 /\ Handshake(cfg, sig))
           => pend.tvalid = 0
        /\ obs.hs >= 2 => obs.last_gap \in 1..GapMax(cfg)
        /\ obs.gap <= GapMax(cfg)
        /\ drv.tvalid_delay \in 0..DelayMax(cfg)

\* under limits of MaxLimit a second beat has completed after a gap of
\* MaxLimit ticks, READY having stalled the send as well
C36_Witness ==
    /\ cfg.mode = "RANDOM" /\ cfg.low = MaxLimit /\ cfg.high = MaxLimit
    /\ obs.hs >= 2 /\ obs.last_gap = MaxLimit
    /\ cfg.has_tready /\ ~obs.rdy

-----------------------------------------------------------------------------
(* Spec again: the empty packet on the wire *)

\* the word drive_tdata writes when every lane is zero
ZeroWord(c) ==
    LET zeros == [i \in 1..c.W |-> 0]
    IN  IF c.unpack = "PACKED" THEN PackBytes(zeros) ELSE zeros

\* C37: the empty packet on the wire.  A send of a packet of size 0 that has
\* returned made exactly one beat, with tlast asserted, a zero data word and
\* the validity mask of a full word; and the packet the monitor appends for
\* it has the lane width W as its size.
C37_EmptyPacket ==
    /\ (Returned /\ LastSent.pkt_size = 0) =>
          /\ Len(obs.wire) = 1
          /\ obs.wire[1].tlast = 1
          /\ obs.wire[1].tdata = ZeroWord(cfg)
          /\ obs.wire[1].tkeep = drive_tkeep(cfg, cfg.W, TRUE)
    /\ \A k \in 1..Len(aport) :
          (k <= Len(sent) /\ sent[k].pkt_size = 0) => aport[k].pkt_size = cfg.W

-----------------------------------------------------------------------------
(* Spec again: the packet across a send *)

-----------------------------------------------------------------------------
(* DutSpec: a monitor on lines driven by a design under observation *)

MaxBeats == 2       \* beats of a packet the observed design drives

\* an interface of any width, packing and keep encoding, with or without a
\* tready line, watched by a monitor with either pkt0_word0; no driver and
\* no ready controller of the test bench are started
InitDut ==
    /\ \E d \in DataConfigs, r \in BOOLEAN :
         /\ d.drv_p0w0 = 1
         /\ SysInit(Config(d, [PlainFlow EXCEPT !.has_tready = r], 1))
    /\ wb = WbIdle

\* await RisingEdge(aclk) in mon_if: at the edge the outputs of the observed
\* design become visible and the monitor is resumed.  The design may show
\* any tvalid, tready and tlast, any value of the W-bit tkeep line, and a
\* zero or a non-zero data word (an idle design, tvalid = 0, shows zeros);
\* it ends a packet at MaxBeats beats and stops after one packet.
DutEdge ==
    /\ runnable = {}
    /\ mon.pc = "wait"
    /\ aport = <<>>
    /\ \E v \in {0, 1}, r \in {0, 1}, l \in {0, 1},
          k \in 0..(Pow2(cfg.W) - 1), z \in BOOLEAN :
         /\ v = 0 => (l = 0 /\ k = 0 /\ z)
         /\ (v = 1 /\ Len(mon.data) >= MaxBeats - 1) => l = 1
         /\ sig' = [sig EXCEPT
                      !.tvalid = v,
                      !.tready = IF cfg.has_tready THEN r ELSE 0,
                      !.tlast  = l,
                      !.tkeep  = k,
                      !.tdata  = IF z THEN ZeroWord(cfg)
                                 ELSE drive_tdata(cfg, PktData(cfg.W), FALSE, 0)]
    /\ pend' = sig'
    /\ runnable' = {"mon"}
    /\ UNCHANGED <<cfg, drv, mon, aport, rsp, sent, obs, wb>>

NextDut ==
    \/ MonitorStart
    \/ MonitorSample
    \/ DutEdge

DutSpec == InitDut /\ [][NextDut]_vars

\* C39: the packets of a monitor.  Every packet in aport has pkt_size equal
\* to the length of its data; the data of a packet appended has the length
\* min(total, beats * W), total being the byte count accumulated over its
\* beats; and the byte count the monitor has accumulated is never more than
\* W times the number of beats it has buffered, whatever masks were sampled.
C39_MonitorSizes ==
    /\ [](\A k \in 1..Len(aport) : aport[k].pkt_size = Len(aport[k].data))
    /\ [](mon.pkt_size <= cfg.W * Len(mon.data))
    /\ [][Len(aport') > Len(aport) =>
            LET new   == aport'[Len(aport')]
                total == mon.pkt_size + mon_tkeep_count(cfg, sig.tkeep)
            IN  /\ new.pkt_size = total
                /\ Len(new.data) = Min(total, (Len(mon.data) + 1) * cfg.W)]_vars

\* a packet of two beats of three lanes was appended whose masks were an
\* FFS value that is not one-hot and the value 0
C39_Witness ==
    /\ Len(aport) >= 1 /\ cfg.W = 3 /\ cfg.keep_type = "FFS"
    /\ aport[Len(aport)].pkt_size = 3 /\ Len(aport[Len(aport)].data) = 3
    /\ mon.last.seen /\ mon.last.count = 0 /\ sig.tkeep = 0 /\ sig.tlast = 1
    /\ cfg.has_tready

=============================================================================
